---- MODULE Spec2Model ----
(***************************************************************************)
(* A model of the vconfig engine of virlog: Config[T] with its file,       *)
(* ETCD and environment-only sources, the watcher goroutines, the          *)
(* debounced callback dispatch and the structural diff findConfigChanges.  *)
(* Time is counted in units of 100ms.                                      *)
(***************************************************************************)
EXTENDS Integers, Sequences, FiniteSets, TLC

(***************************************************************************)
(* Bounds of the exploration.                                              *)
(***************************************************************************)
MaxTime == 3          \* the clock stops advancing here
MaxOps == 2           \* public calls the caller thread makes
MaxWrites == 2        \* writes by processes other than the engine
MaxFiles == 2         \* configuration files WithConfigFiles may name
MaxClients == 2       \* ETCD configurations WithETCDs may name

(***************************************************************************)
(* Program constants.                                                      *)
(***************************************************************************)
DebounceTime == 2     \* WithDebounceTime(200 * time.Millisecond)
SettleDelay == 1      \* time.Sleep(100 * time.Millisecond) in watchConfig
ZeroTime == 0 - DebounceTime   \* time.Time{}: at least a debounce window before any now

JSON == "json"
YAML == "yaml"
TOML == "toml"
ConfigTypes == {JSON, YAML, TOML}

(***************************************************************************)
(* reflect.Value: what findConfigChanges sees of a Go value.               *)
(* A struct tag is the sequence of its comma-separated parts, so the       *)
(* empty tag is <<"">> and strings.Split(tag, ",")[0] is tag[1].           *)
(***************************************************************************)
NilV == [kind |-> "invalid"]
IntV(n) == [kind |-> "int", type |-> "int", val |-> n]
StrV(s) == [kind |-> "string", type |-> "string", val |-> s]
FloatV(x) == [kind |-> "float64", type |-> "float64", val |-> x]
\* the float64 that is not a number
NaN == [kind |-> "float64", type |-> "float64", nan |-> TRUE]
\* a func value that is not nil, and the nil one
FuncV(t, fn) == [kind |-> "func", type |-> t, fn |-> fn]
NilFuncV(t) == [kind |-> "func", type |-> t, isNil |-> TRUE]
PtrV(t, e) == [kind |-> "ptr", type |-> t, elem |-> e]
StructV(t, fs) == [kind |-> "struct", type |-> t, fields |-> fs]
MapV(t, m) == [kind |-> "map", type |-> t, m |-> m]
SliceV(t, es) == [kind |-> "slice", type |-> t, elems |-> es]
ArrayV(t, es) == [kind |-> "array", type |-> t, elems |-> es]
Field(n, y, j, x, v) == [name |-> n, yaml |-> y, json |-> j, exported |-> x, val |-> v]
NoTag == <<"">>

\* an item with old and new the wrong way round
SwappedItem(p, o, n) == [Path |-> p, OldValue |-> n, NewValue |-> o]
ConfigChangedItem(p, o, n) == [Path |-> p, OldValue |-> o, NewValue |-> n]

IsComposite(v) == v.kind \in {"struct", "map", "slice", "array"}
Elem(v) == IF v.kind = "ptr" THEN v.elem ELSE v
\* reflect.DeepEqual of two values that are compared by what they hold: structs and
\* arrays field by field and element by element, unexported fields included; slices and
\* maps when both or neither are nil, of one length, element by element and key by key;
\* pointers by what they point to; floats by ==, which NaN fails against itself; funcs
\* only when both are nil. (A slice, a map or a pointer that is one object on both sides
\* is deeply equal without a look inside; the slices, maps and pointers of this module
\* hold ints, strings and structs of them, of which both ways agree.)
RECURSIVE DeepEqual(_, _)
DeepEqual(a, b) ==
    IF a.kind # b.kind THEN FALSE
    ELSE IF a.kind = "invalid" THEN TRUE
    ELSE IF a.type # b.type THEN FALSE
    ELSE IF a.kind = "float64"
         THEN "nan" \notin DOMAIN a /\ "nan" \notin DOMAIN b /\ a.val = b.val
    ELSE IF a.kind = "func" THEN "isNil" \in DOMAIN a /\ "isNil" \in DOMAIN b
    ELSE IF a.kind = "ptr" THEN DeepEqual(a.elem, b.elem)
    ELSE IF a.kind = "struct"
         THEN \A i \in DOMAIN a.fields : DeepEqual(a.fields[i].val, b.fields[i].val)
    ELSE IF a.kind = "map"
         THEN /\ ("isNil" \in DOMAIN a) = ("isNil" \in DOMAIN b)
              /\ DOMAIN a.m = DOMAIN b.m
              /\ \A k \in DOMAIN a.m : DeepEqual(a.m[k], b.m[k])
    ELSE IF a.kind \in {"slice", "array"}
         THEN /\ ("isNil" \in DOMAIN a) = ("isNil" \in DOMAIN b)
              /\ Len(a.elems) = Len(b.elems)
              /\ \A i \in DOMAIN a.elems : DeepEqual(a.elems[i], b.elems[i])
    ELSE a = b

\* all the orders in which a Go map range may visit the keys S
RECURSIVE Orders(_)
Orders(S) ==
    IF S = {} THEN {<<>>}
    ELSE UNION {{<<k>> \o r : r \in Orders(S \ {k})} : k \in S}

\* the identifier of a field, which is its path only when it has no tag
FieldName(f) == f.name

FieldPath(f) ==
    IF f.yaml # <<"">> /\ f.yaml # <<"-">> THEN f.yaml[1]
    ELSE IF f.json # <<"">> /\ f.json # <<"-">> THEN f.json[1]
    ELSE f.name

\* the last name alone, which is the path only under the empty path
BarePath(path, name) == name
JoinPath(path, name) == IF path # "" THEN path \o "." \o name ELSE name
\* the path of the collection itself, which is no element's path
CollectionPath(path, i) == path
ItemPath(path, i) == path \o "[" \o ToString(i) \o "]"

(***************************************************************************)
(* findConfigChanges(oldData, newData, path): the set of change lists the  *)
(* function can return; more than one only where a map is ranged over.     *)
(***************************************************************************)
RECURSIVE findConfigChanges(_, _, _)
RECURSIVE StructFieldChanges(_, _, _, _)
RECURSIVE MapKeyChanges(_, _, _, _, _)
RECURSIVE SliceItemChanges(_, _, _, _)

StructFieldChanges(oldVal, newVal, path, i) ==
    IF i > Len(oldVal.fields) THEN {<<>>}
    ELSE LET oldField == oldVal.fields[i]
             newField == newVal.fields[i]
             fullPath == JoinPath(path, FieldPath(oldField))
             here == IF ~oldField.exported THEN {<<>>}
                     ELSE IF IsComposite(oldField.val)
                          THEN findConfigChanges(oldField.val, newField.val, fullPath)
                     ELSE IF ~DeepEqual(oldField.val, newField.val)
                          THEN {<<ConfigChangedItem(fullPath, oldField.val, newField.val)>>}
                     ELSE {<<>>}
         IN {h \o r : h \in here, r \in StructFieldChanges(oldVal, newVal, path, i + 1)}

\* a range over the keys that compares none of them
NoKeyChanges(oldVal, newVal, path, order, i) == {<<>>}

MapKeyChanges(oldVal, newVal, path, order, i) ==
    IF i > Len(order) THEN {<<>>}
    ELSE LET key == order[i]
             fullPath == JoinPath(path, key)
             here == IF key \notin DOMAIN oldVal.m
                          THEN {<<ConfigChangedItem(fullPath, NilV, newVal.m[key])>>}
                     ELSE IF key \notin DOMAIN newVal.m
                          THEN {<<ConfigChangedItem(fullPath, oldVal.m[key], NilV)>>}
                     ELSE IF IsComposite(oldVal.m[key])
                          THEN findConfigChanges(oldVal.m[key], newVal.m[key], fullPath)
                     ELSE IF ~DeepEqual(oldVal.m[key], newVal.m[key])
                          THEN {<<ConfigChangedItem(fullPath, oldVal.m[key], newVal.m[key])>>}
                     ELSE {<<>>}
         IN {h \o r : h \in here, r \in MapKeyChanges(oldVal, newVal, path, order, i + 1)}

SliceItemChanges(oldVal, newVal, path, i) ==
    IF i > Len(oldVal.elems) THEN {<<>>}
    ELSE LET oldItem == oldVal.elems[i]
             newItem == newVal.elems[i]
             itemPath == ItemPath(path, i - 1)
             here == IF IsComposite(oldItem)
                          THEN findConfigChanges(oldItem, newItem, itemPath)
                     ELSE IF ~DeepEqual(oldItem, newItem)
                          THEN {<<ConfigChangedItem(itemPath, oldItem, newItem)>>}
                     ELSE {<<>>}
         IN {h \o r : h \in here, r \in SliceItemChanges(oldVal, newVal, path, i + 1)}

findConfigChanges(oldData, newData, path) ==
    LET oldVal == Elem(oldData)
        newVal == Elem(newData)
    IN  IF oldVal.kind = "invalid" /\ newVal.kind = "invalid" THEN {<<>>}
        ELSE IF oldVal.kind = "invalid"
             THEN {<<ConfigChangedItem(path, NilV, newData)>>}
        ELSE IF newVal.kind = "invalid"
             THEN {<<ConfigChangedItem(path, oldData, NilV)>>}
        ELSE IF oldVal.type # newVal.type
             THEN {<<ConfigChangedItem(path, oldData, newData)>>}
        ELSE IF oldVal.kind = "struct"
             THEN IF DeepEqual(oldVal, newVal) THEN {<<>>}
                  ELSE StructFieldChanges(oldVal, newVal, path, 1)
        ELSE IF oldVal.kind = "map"
             THEN IF DeepEqual(oldVal, newVal) THEN {<<>>}
                  ELSE UNION {MapKeyChanges(oldVal, newVal, path, order, 1) :
                                order \in Orders(DOMAIN oldVal.m \cup DOMAIN newVal.m)}
        ELSE IF oldVal.kind \in {"slice", "array"}
             THEN IF DeepEqual(oldVal, newVal) THEN {<<>>}
                  ELSE IF Len(oldVal.elems) # Len(newVal.elems)
                       THEN {<<ConfigChangedItem(path, oldVal, newVal)>>}
                  ELSE {IF Len(changes) = 0 /\ ~DeepEqual(oldVal, newVal)
                           THEN <<ConfigChangedItem(path, oldVal, newVal)>>
                           ELSE changes :
                        changes \in SliceItemChanges(oldVal, newVal, path, 1)}
        ELSE IF ~DeepEqual(oldVal, newVal)
             THEN {<<ConfigChangedItem(path, oldVal, newVal)>>}
        ELSE {<<>>}

(***************************************************************************)
(* The configuration type T of the modelled engine:                        *)
(*   struct { Port int `yaml:"port"`; Level int `yaml:"level"` }           *)
(* A value of T is the record of its fields; a document is what a file or  *)
(* an ETCD key holds: undecodable bytes, or the keys it sets.              *)
(***************************************************************************)
Keys == {"port", "level"}
Vals == 0 .. 1
T == [Keys -> Vals]
ZeroT == [k \in Keys |-> 0]
MkT(p, l) == [k \in Keys |-> IF k = "port" THEN p ELSE l]

ValueOf(d) ==
    StructV("T", << Field("Port", <<"port">>, NoTag, TRUE, IntV(d["port"])),
                    Field("Level", <<"level">>, NoTag, TRUE, IntV(d["level"])) >>)

Absent == [st |-> "absent", kv |-> <<>>]
Malformed == [st |-> "malformed", kv |-> <<>>]
Doc(kv) == [st |-> "ok", kv |-> kv]
EmptyDoc == Doc(<<>>)

\* The configuration type of the round trip, after AppConfig of the tests:
\*   struct { Port int `yaml:"port"`; MaxConns int `yaml:"max_conns"` }
\* with the same names in its json and toml tags, and no mapstructure tag. A field of a
\* value is named by its identifier in lower case, which is the name the decoder of
\* viper compares, letter case apart, to the keys of a document.
AppKeys == {"port", "maxconns"}
AppConfig == [AppKeys -> Vals]
\* the serialization tag of a field
TagOf(f) == IF f = "maxconns" THEN "max_conns" ELSE f
\* var dst T
ZeroOf(d) == [f \in DOMAIN d |-> 0]

\* json.Marshal / yaml.Marshal / toml Encode of a value: every field, under its tag
Marshal(d) ==
    Doc([t \in {TagOf(f) : f \in DOMAIN d} |-> d[CHOOSE f \in DOMAIN d : TagOf(f) = t]])
\* a scalar of a document that does not convert to the int of a field of T
NotAnInt == 0 - 1
\* a document decodes into a T when it parses and each of its scalars converts
Decodable(doc) == doc.st = "ok" /\ \A k \in DOMAIN doc.kv : doc.kv[k] \in Vals
\* Unmarshal(doc, &into): the keys the document sets overwrite the fields of into; a
\* scalar that does not convert is reported and its field keeps its value, while the
\* decoder goes on with the other fields
Unmarshal(doc, into) ==
    [f \in DOMAIN into |->
        IF f \in DOMAIN doc.kv /\ doc.kv[f] \in Vals THEN doc.kv[f] ELSE into[f]]
\* json.Unmarshal(data, &dst): a field takes the key of its json tag
JsonUnmarshal(doc, into) ==
    [f \in DOMAIN into |-> IF TagOf(f) \in DOMAIN doc.kv THEN doc.kv[TagOf(f)] ELSE into[f]]
\* a field value that no encoder of the three formats can express
Rejected == 0 - 2
EncodeFails(d) == \E k \in DOMAIN d : d[k] = Rejected

\* the zero value when json.Marshal fails, else the value decoded from its JSON
cloneConfig(src) ==
    IF EncodeFails(src) THEN ZeroOf(src) ELSE JsonUnmarshal(Marshal(src), ZeroOf(src))

\* c.v.Set(k, val): one key laid over the overrides of a viper instance
Set(viper, k, val) == [j \in DOMAIN viper \cup {k} |-> IF j = k THEN val ELSE viper[j]]
\* the settings a range loop has still to visit once it has visited k
Rest(settings, k) == [j \in DOMAIN settings \ {k} |-> settings[j]]

\* the keys of settings laid over the overrides of a viper instance: c.v.Set(k, val) for each k
SetAll(viper, settings) ==
    [k \in DOMAIN viper \cup DOMAIN settings |->
        IF k \in DOMAIN settings THEN settings[k] ELSE viper[k]]


(***************************************************************************)
(* Tasks: the caller's thread, the goroutine of watchConfig and one        *)
(* goroutine of etcdClient.watch per ETCD client.                          *)
(***************************************************************************)
Caller == <<"caller", 0>>
\* a second goroutine of the program, which calls Update while the caller runs
Updater == <<"caller", 1>>
Callers == {Caller, Updater}
FileWatcher == <<"fw", 0>>
EtcdWatcher(i) == <<"ew", i>>
NoTask == <<"none", 0>>
EtcdWatchers == {EtcdWatcher(i) : i \in 1 .. MaxClients}
Watchers == {FileWatcher} \cup EtcdWatchers
Tasks == Callers \cup Watchers

NilViper == [nil |-> TRUE, set |-> <<>>]
Viper(settings) == [nil |-> FALSE, set |-> settings]

NoPanic == [task |-> NoTask, cause |-> ""]
NilDeref == "invalid memory address or nil pointer dereference"
IndexRange == "index out of range"

VARIABLES
    data, oldData, v, configFiles, etcdConfigs, enableEnv, env, configType,
    changeCallbacks, callbackMu, lastModTime, closed, etcdClients, envOnly,
    now, fs, fsEvents, kv, watchChan, chanClosed, clientClosed, writes,
    pc, loc, panicked, ops, closeReturned,
    std, mu, at, got

engineVars == <<data, oldData, v, configFiles, etcdConfigs, enableEnv, env, configType,
                changeCallbacks, callbackMu, lastModTime, closed, etcdClients, envOnly>>
\* what the options of NewConfig and the process environment fix for good
optionVars == <<configFiles, etcdConfigs, enableEnv, env, configType>>
worldVars == <<now, fs, fsEvents, kv, watchChan, chanClosed, clientClosed, writes>>
taskVars == <<pc, loc, panicked, ops, closeReturned>>
\* package logger: the default logger, its lock, and where each goroutine that uses
\* them is and what it holds
loggerVars == <<std, mu, at, got>>
vars == <<engineVars, worldVars, taskVars, loggerVars>>

(***************************************************************************)
(* Locals of a task. Besides the locals of the code, a task records of its *)
(* current call or reload cycle: the engine's snapshots when it started    *)
(* (pre), the snapshot it loaded (post), whether its signal could be       *)
(* decoded, whether it fell in the debounce window, and how it ended.      *)
(* They die with the call: WatcherLoop and the return of a public          *)
(* operation reset them.                                                   *)
(***************************************************************************)
Snapshot == [data |-> data, oldData |-> oldData, lastModTime |-> lastModTime]
NoSnapshot == [data |-> ZeroT, oldData |-> ZeroT, lastModTime |-> ZeroTime]

InitLoc ==
    [op |-> "", arg |-> ZeroT, err |-> "", ret |-> ZeroT, before |-> ZeroT, after |-> ZeroT,
     doc |-> Absent, src |-> ZeroT, todo |-> <<>>, newData |-> ZeroT,
     changes |-> <<>>, cbs |-> <<>>, i |-> 0, clients |-> <<>>, wake |-> 0,
     calls |-> <<>>, ncb |-> 0, open |-> FALSE, pre |-> NoSnapshot, post |-> ZeroT,
     decodable |-> FALSE, inWindow |-> FALSE, outcome |-> "",
     again |-> <<>>, closing |-> <<>>, held |-> ZeroT, settings |-> <<>>]

\* sync.RWMutex: the tasks holding it for reading, the tasks waiting to write
RWUnlocked == [readers |-> {}, waiting |-> {}]

(***************************************************************************)
(* Init: the engine as NewConfig returns it, in each source mode.          *)
(***************************************************************************)
DefaultConfigs == {MkT(1, 0)}
\* what a configuration file may hold before NewConfig: nothing, or a document
InitFileDocs == {Absent, Doc(MkT(0, 1))}
\* what an ETCD key may hold before NewConfig
InitKvDocs == {Absent, Doc(MkT(0, 1)), Malformed}

\* the process environment: the value of the variable derived from each key, "" when
\* the variable is not set (os.Getenv)
NoEnv == [k \in Keys |-> ""]
PortEnv(s) == [k \in Keys |-> IF k = "port" THEN s ELSE ""]
Envs == {NoEnv, PortEnv("1"), PortEnv("x")}

\* strconv.ParseInt(envVal, 10, 64) on the strings of the environment
Digits == {"0", "1"}
ParseInt(s) == IF s = "1" THEN 1 ELSE 0

\* the overlay of initWithFiles and initWithEnv: a key of the viper whose variable is
\* set and parses as the int the key holds is Set to the parsed value
EnvOverlay(settings, e) ==
    [k \in DOMAIN settings |->
        IF k \in DOMAIN e /\ e[k] \in Digits THEN ParseInt(e[k]) ELSE settings[k]]

\* initWithFiles: a missing file is created from the fresh tempViper, which holds no setting
CreatedFile(d) == IF d.st = "absent" THEN EmptyDoc ELSE d

RECURSIVE MergeFiles(_, _, _)
MergeFiles(viper, files, i) ==
    IF i > Len(files) THEN viper
    ELSE MergeFiles(SetAll(viper, CreatedFile(files[i]).kv), files, i + 1)

\* initWithFiles: the settings of the default, of each file in turn and, with WithEnv(true),
\* of the environment, decoded into c.data; err when a file cannot be read in, which
\* ends the loop over the files: the missing files after it are not created; err also
\* when c.v.Unmarshal(&c.data) reports a setting that does not convert
initWithFiles(def, present, enable, e) ==
    LET merged == MergeFiles(Marshal(def).kv, present, 1)
        settings == IF enable THEN EnvOverlay(merged, e) ELSE merged
    IN  [err |-> \/ \E i \in DOMAIN present : present[i].st = "malformed"
                 \/ ~Decodable(Doc(settings)),
         v |-> Viper(settings),
         data |-> Unmarshal(Doc(settings), def),
         fs |-> [i \in DOMAIN present |->
                    IF \E j \in 1 .. i - 1 : present[j].st = "malformed"
                    THEN present[i] ELSE CreatedFile(present[i])]]

\* initWithETCDs: each present key is decoded into c.data in turn, a key whose scalars
\* do not all convert as far as the decoder gets
RECURSIVE LoadEtcds(_, _, _)
LoadEtcds(d, docs, i) ==
    IF i > Len(docs) THEN d
    ELSE LoadEtcds(IF docs[i].st = "ok" THEN Unmarshal(docs[i], d) ELSE d, docs, i + 1)

\* initWithETCDs: the loaded snapshot, and the keys after c.data was saved to every
\* client if a load returned an error: bytes that do not parse, or a scalar that does
\* not convert to the type of its field; an absent key is no error
initWithETCDs(def, present) ==
    LET loaded == LoadEtcds(def, present, 1)
        exists == \A i \in DOMAIN present : present[i].st = "absent" \/ Decodable(present[i])
    IN  [data |-> loaded,
         kv |-> [i \in DOMAIN present |-> IF exists THEN present[i] ELSE Marshal(loaded)]]

\* initWithEnv: the settings of the default under the environment, decoded into c.data
initWithEnv(def, e) ==
    LET settings == EnvOverlay(Marshal(def).kv, e)
    IN  [v |-> Viper(settings), data |-> Unmarshal(Doc(settings), def)]

(***************************************************************************)
(* Package logger. A Logger is an interface value of two words: the type   *)
(* of what it holds and the pointer to it. init() stores the first logger  *)
(* in std; NewLogger returns a *zapLogger that no one else holds.          *)
(***************************************************************************)
Logger(t, p) == [type |-> t, ptr |-> p]
NilLogger == Logger("nil", 0)
ZapLogger(p) == Logger("*zapLogger", p)
Setter(i) == <<"setter", i>>
Setters == {Setter(1), Setter(2)}
Getters == {<<"getter", 1>>}
Users == {<<"user", 1>>}
Goroutines == Setters \cup Getters \cup Users
\* sync.RWMutex: the goroutines holding it for reading, the one holding it for writing
MutexFree == [readers |-> {}, writer |-> NoTask]
InitGot == [op |-> "", logger |-> NilLogger, arg |-> NilLogger, n |-> 0]
\* the default logger after init(), with no goroutine using it
LoggerIdle ==
    /\ std = ZapLogger(0)
    /\ mu = MutexFree
    /\ at = [g \in Goroutines |-> "none"]
    /\ got = [g \in Goroutines |-> InitGot]

InitCommon ==
    /\ LoggerIdle
    /\ callbackMu = RWUnlocked
    /\ changeCallbacks = <<>>
    /\ lastModTime = ZeroTime
    /\ closed = FALSE
    /\ now = 0
    /\ fsEvents = 0
    /\ writes = 0
    /\ loc = [t \in Tasks |-> InitLoc]
    /\ panicked = NoPanic
    /\ ops = 0
    /\ closeReturned = FALSE

\* the engine NewConfig returns on n configuration files
InitFilesN(n) ==
    \E def \in DefaultConfigs :
    \E present \in [1 .. n -> InitFileDocs] :
        LET eng == initWithFiles(def, present, enableEnv, env)
        IN  /\ ~eng.err
            /\ configFiles = [i \in 1 .. n |-> i]
            /\ etcdConfigs = <<>>
            /\ pc = [t \in Tasks |-> IF t = Caller THEN "ready"
                                     ELSE IF t = FileWatcher THEN "idle" ELSE "none"]
            /\ etcdClients = <<>>
            /\ envOnly = FALSE
            /\ fs = eng.fs
            /\ v = eng.v
            /\ data = eng.data
            /\ oldData = cloneConfig(def)
            /\ kv = <<>>
            /\ watchChan = <<>>
            /\ chanClosed = <<>>
            /\ clientClosed = <<>>

\* the engine NewConfig returns on n ETCD configurations
InitETCDsN(n) ==
    \E def \in DefaultConfigs :
    \E present \in [1 .. n -> InitKvDocs] :
        LET eng == initWithETCDs(def, present)
        IN  /\ configFiles = <<>>
            /\ etcdConfigs = [i \in 1 .. n |-> i]
            /\ pc = [t \in Tasks |-> IF t = Caller THEN "ready"
                                     ELSE IF t \in {EtcdWatcher(i) : i \in 1 .. n} THEN "idle"
                                     ELSE "none"]
            /\ etcdClients = [i \in 1 .. n |-> i]
            /\ envOnly = FALSE
            /\ fs = <<>>
            /\ v = Viper(<<>>)
            /\ data = eng.data
            /\ oldData = cloneConfig(def)
            /\ kv = eng.kv
            /\ watchChan = [i \in 1 .. n |-> <<>>]
            /\ chanClosed = [i \in 1 .. n |-> FALSE]
            /\ clientClosed = [i \in 1 .. n |-> FALSE]

InitETCDs == \E n \in 1 .. MaxClients : InitETCDsN(n)

InitEnv ==
    \E def \in DefaultConfigs :
        LET eng == initWithEnv(def, env)
        IN  /\ configFiles = <<>>
            /\ etcdConfigs = <<>>
            /\ etcdClients = <<>>
            /\ envOnly = TRUE
            /\ pc = [t \in Tasks |-> IF t \in Callers THEN "ready" ELSE "none"]
            /\ fs = <<>>
            /\ v = eng.v
            /\ data = eng.data
            /\ oldData = cloneConfig(def)
            /\ kv = <<>>
            /\ watchChan = <<>>
            /\ chanClosed = <<>>
            /\ clientClosed = <<>>

(***************************************************************************)
(* Helpers of the actions.                                                 *)
(***************************************************************************)
Alive == panicked = NoPanic
\* where a task continues after triggerCallbacks or the watchETCDs callback returns
Ret(t) == IF t \in Callers THEN "update_ret" ELSE "cycle_end"
\* a run-time panic of task t ends the process
Panic(t, cause) == panicked' = [task |-> t, cause |-> cause]
FileName(f) == "config" \o ToString(f)

\* a task at rest waits for an event, sleeps, or is between two calls of the caller
AtRest(t) == pc[t] \in {"ready", "idle", "sleep", "none", "exited"}

\* the steps of the code take no time: the clock advances while every task is at rest
Tick ==
    /\ Alive
    /\ now < MaxTime
    /\ \A t \in Tasks : AtRest(t)
    /\ now' = now + 1
    /\ UNCHANGED loggerVars
    /\ UNCHANGED <<engineVars, fs, fsEvents, kv, watchChan, chanClosed, clientClosed, writes,
                   taskVars>>

\* the end of one iteration of a watcher goroutine's for-select loop
WatcherLoop(t) ==
    /\ Alive
    /\ pc[t] = "cycle_end"
    /\ pc' = [pc EXCEPT ![t] = "idle"]
    /\ loc' = [loc EXCEPT ![t] = InitLoc]
    /\ UNCHANGED loggerVars
    /\ UNCHANGED <<engineVars, worldVars, panicked, ops, closeReturned>>

(***************************************************************************)
(* triggerCallbacks, as run by the file watcher and by Update.             *)
(***************************************************************************)
\* the check of c.closed
TrigClosed(t) ==
    /\ Alive
    /\ pc[t] = "trig_closed"
    /\ IF closed
          THEN /\ pc' = [pc EXCEPT ![t] = Ret(t)]
               /\ loc' = [loc EXCEPT ![t].outcome = "closed"]
          ELSE /\ pc' = [pc EXCEPT ![t] = "trig_debounce"]
               /\ loc' = loc
    /\ UNCHANGED loggerVars
    /\ UNCHANGED <<engineVars, worldVars, panicked, ops, closeReturned>>

\* now := time.Now(); the read of c.lastModTime: now.Sub(c.lastModTime) < c.debounceTime
TrigDebounce(t) ==
    /\ Alive
    /\ pc[t] = "trig_debounce"
    /\ IF now - lastModTime < DebounceTime
          THEN /\ pc' = [pc EXCEPT ![t] = Ret(t)]
               /\ loc' = [loc EXCEPT ![t].inWindow = TRUE, ![t].outcome = "dropped"]
          ELSE /\ pc' = [pc EXCEPT ![t] = "trig_stamp"]
               /\ loc' = [loc EXCEPT ![t].inWindow = FALSE]
    /\ UNCHANGED loggerVars
    /\ UNCHANGED <<engineVars, worldVars, panicked, ops, closeReturned>>

\* c.lastModTime = now: a write under no lock, apart from the read that allowed it
TrigStamp(t) ==
    /\ Alive
    /\ pc[t] = "trig_stamp"
    /\ lastModTime' = now
    /\ pc' = [pc EXCEPT ![t] = "trig_diff"]
    /\ UNCHANGED loggerVars
    /\ UNCHANGED <<data, oldData, v, optionVars, changeCallbacks, callbackMu,
                   closed, etcdClients, envOnly, worldVars, loc, panicked, ops, closeReturned>>

\* changedItems := findConfigChanges(c.oldData, c.data, ""): the operands are loaded
\* from left to right under no lock; first c.oldData
TrigDiff(t) ==
    /\ Alive
    /\ pc[t] = "trig_diff"
    /\ loc' = [loc EXCEPT ![t].held = oldData]
    /\ pc' = [pc EXCEPT ![t] = "trig_diff_data"]
    /\ UNCHANGED loggerVars
    /\ UNCHANGED <<engineVars, worldVars, panicked, ops, closeReturned>>

\* then c.data, and the call
TrigDiffData(t) ==
    /\ Alive
    /\ pc[t] = "trig_diff_data"
    /\ \E changedItems \in findConfigChanges(ValueOf(loc[t].held), ValueOf(data), "") :
          loc' = [loc EXCEPT ![t].changes = changedItems]
    /\ pc' = [pc EXCEPT ![t] = "cb_rlock"]
    /\ UNCHANGED loggerVars
    /\ UNCHANGED <<engineVars, worldVars, panicked, ops, closeReturned>>

\* c.callbackMu.RLock(): blocked while a writer waits for the lock
CallbackRLock(t) ==
    /\ Alive
    /\ pc[t] = "cb_rlock"
    /\ callbackMu.waiting = {}
    /\ callbackMu' = [callbackMu EXCEPT !.readers = @ \cup {t}]
    /\ loc' = [loc EXCEPT ![t].cbs = changeCallbacks, ![t].i = 1]
    /\ pc' = [pc EXCEPT ![t] = "cb_invoke"]
    /\ UNCHANGED loggerVars
    /\ UNCHANGED <<data, oldData, v, optionVars, changeCallbacks,
                   lastModTime, closed, etcdClients, envOnly, worldVars, panicked, ops,
                   closeReturned>>

\* one iteration of the loop over c.changeCallbacks: callback(e, changedItems)
CallbackInvoke(t) ==
    /\ Alive
    /\ pc[t] = "cb_invoke"
    /\ loc[t].i <= Len(loc[t].cbs)
    /\ loc' = [loc EXCEPT ![t].calls = Append(@, loc[t].cbs[loc[t].i]), ![t].i = @ + 1]
    /\ UNCHANGED loggerVars
    /\ UNCHANGED <<engineVars, worldVars, pc, panicked, ops, closeReturned>>

\* a dispatch whose loop stops one observer short
CallbackReturnEarly(t) ==
    /\ Alive
    /\ pc[t] = "cb_invoke"
    /\ loc[t].i >= Len(loc[t].cbs)
    /\ callbackMu' = [callbackMu EXCEPT !.readers = @ \ {t}]
    /\ pc' = [pc EXCEPT ![t] = Ret(t)]
    /\ loc' = [loc EXCEPT ![t].outcome = "dispatched"]
    /\ UNCHANGED loggerVars
    /\ UNCHANGED <<data, oldData, v, optionVars, changeCallbacks,
                   lastModTime, closed, etcdClients, envOnly, worldVars, panicked, ops,
                   closeReturned>>

\* the end of the loop and the deferred c.callbackMu.RUnlock()
CallbackReturn(t) ==
    /\ Alive
    /\ pc[t] = "cb_invoke"
    /\ loc[t].i > Len(loc[t].cbs)
    /\ callbackMu' = [callbackMu EXCEPT !.readers = @ \ {t}]
    /\ pc' = [pc EXCEPT ![t] = Ret(t)]
    /\ loc' = [loc EXCEPT ![t].outcome = "dispatched"]
    /\ UNCHANGED loggerVars
    /\ UNCHANGED <<data, oldData, v, optionVars, changeCallbacks,
                   lastModTime, closed, etcdClients, envOnly, worldVars, panicked, ops,
                   closeReturned>>

(***************************************************************************)
(* The goroutine of watchConfig and loadFromFile.                          *)
(***************************************************************************)
\* case event := <-watcher.Events with a Write: the closed check before the sleep
FileWatcherEvent ==
    /\ Alive
    /\ pc[FileWatcher] = "idle"
    /\ fsEvents > 0
    /\ fsEvents' = fsEvents - 1
    /\ IF closed
          THEN /\ pc' = [pc EXCEPT ![FileWatcher] = "exited"]
               /\ loc' = loc
          ELSE /\ pc' = [pc EXCEPT ![FileWatcher] = "sleep"]
               /\ loc' = [loc EXCEPT ![FileWatcher].wake = now + SettleDelay,
                                     ![FileWatcher].pre = Snapshot,
                                     ![FileWatcher].post = data]
    /\ UNCHANGED loggerVars
    /\ UNCHANGED <<engineVars, now, fs, kv, watchChan, chanClosed, clientClosed, writes,
                   panicked, ops, closeReturned>>

\* time.Sleep(100ms) returns; loadFromFile reads c.configFiles[0] with os.ReadFile and
\* tempViper.ReadConfig decodes the bytes
FileWatcherLoad ==
    /\ Alive
    /\ pc[FileWatcher] = "sleep"
    /\ now >= loc[FileWatcher].wake
    /\ LET fileBytes == fs[configFiles[1]]
       IN  IF fileBytes.st # "ok"
              THEN /\ pc' = [pc EXCEPT ![FileWatcher] = "cycle_end"]
                   /\ loc' = [loc EXCEPT ![FileWatcher].outcome = "failed"]
              ELSE /\ pc' = [pc EXCEPT ![FileWatcher] =
                                IF DOMAIN fileBytes.kv = {} THEN "unmarshal" ELSE "load_set"]
                   /\ loc' = [loc EXCEPT ![FileWatcher].doc = fileBytes,
                                         ![FileWatcher].settings = fileBytes.kv,
                                         ![FileWatcher].decodable = Decodable(fileBytes)]
    /\ UNCHANGED loggerVars
    /\ UNCHANGED <<engineVars, worldVars, panicked, ops, closeReturned>>

\* one iteration of for k, val := range allSettings { c.v.Set(k, val) }: the keys come
\* in any order, and each Set is a store under no lock
FileWatcherSet ==
    /\ Alive
    /\ pc[FileWatcher] = "load_set"
    /\ LET allSettings == loc[FileWatcher].settings
       IN  IF v.nil
              THEN /\ Panic(FileWatcher, NilDeref)
                   /\ loc' = [loc EXCEPT ![FileWatcher].outcome = "panic"]
                   /\ UNCHANGED <<v, pc>>
              ELSE \E k \in DOMAIN allSettings :
                   /\ v' = Viper(Set(v.set, k, allSettings[k]))
                   /\ loc' = [loc EXCEPT ![FileWatcher].settings = Rest(allSettings, k)]
                   /\ pc' = [pc EXCEPT ![FileWatcher] =
                                IF DOMAIN allSettings = {k} THEN "unmarshal" ELSE @]
                   /\ UNCHANGED panicked
    /\ UNCHANGED loggerVars
    /\ UNCHANGED <<data, oldData, optionVars, changeCallbacks, callbackMu,
                   lastModTime, closed, etcdClients, envOnly, worldVars, ops,
                   closeReturned>>

\* the fields of T that the settings name, in the order of their declaration
DecodeOrder(settings) == SelectSeq(<<"port", "level">>, LAMBDA k : k \in DOMAIN settings)

\* c.v.Unmarshal(&c.data) starts: the settings of c.v are what it will decode, and
\* its error, if a setting does not convert, is returned once every field was tried
FileWatcherUnmarshal ==
    /\ Alive
    /\ pc[FileWatcher] = "unmarshal"
    /\ IF v.nil
          THEN /\ Panic(FileWatcher, NilDeref)
               /\ loc' = [loc EXCEPT ![FileWatcher].outcome = "panic"]
               /\ pc' = pc
          ELSE LET todo == SelectSeq(DecodeOrder(v.set), LAMBDA k : v.set[k] \in Vals)
                   failed == ~Decodable(Doc(v.set))
               IN  /\ loc' = [loc EXCEPT
                         ![FileWatcher].src = Unmarshal(Doc(v.set), data),
                         ![FileWatcher].todo = todo,
                         ![FileWatcher].err = IF failed THEN "unmarshal" ELSE "",
                         ![FileWatcher].outcome = IF failed /\ todo = <<>> THEN "failed" ELSE @,
                         ![FileWatcher].post = data]
                   /\ pc' = [pc EXCEPT ![FileWatcher] =
                                IF todo # <<>> THEN "decode"
                                ELSE IF failed THEN "cycle_end" ELSE "trig_closed"]
                   /\ UNCHANGED panicked
    /\ UNCHANGED loggerVars
    /\ UNCHANGED <<engineVars, worldVars, ops, closeReturned>>

\* the decoder stores one field of c.data, in place and under no lock
FileWatcherDecodeField ==
    /\ Alive
    /\ pc[FileWatcher] = "decode"
    /\ LET k == Head(loc[FileWatcher].todo)
           last == Len(loc[FileWatcher].todo) = 1
           failed == last /\ loc[FileWatcher].err # ""
       IN  /\ data' = [data EXCEPT ![k] = loc[FileWatcher].src[k]]
           /\ loc' = [loc EXCEPT ![FileWatcher].todo = Tail(@),
                                 ![FileWatcher].post = data',
                                 ![FileWatcher].outcome = IF failed THEN "failed" ELSE @]
           /\ pc' = [pc EXCEPT ![FileWatcher] =
                        IF failed THEN "cycle_end"
                        ELSE IF last THEN "trig_closed" ELSE "decode"]
    /\ UNCHANGED loggerVars
    /\ UNCHANGED <<oldData, v, optionVars, changeCallbacks, callbackMu,
                   lastModTime, closed, etcdClients, envOnly, worldVars, panicked, ops,
                   closeReturned>>

(***************************************************************************)
(* The goroutine of etcdClient.watch for client i, running the callback    *)
(* that watchETCDs gave it.                                                *)
(***************************************************************************)
\* case resp, ok := <-watcher, the check of the client's closed flag, callback(ev.Kv.Value)
EtcdWatcherEvent(i) ==
    /\ Alive
    /\ pc[EtcdWatcher(i)] = "idle"
    /\ i \in DOMAIN watchChan
    /\ IF Len(watchChan[i]) = 0
          THEN /\ chanClosed[i]
               /\ pc' = [pc EXCEPT ![EtcdWatcher(i)] = "exited"]
               /\ UNCHANGED <<watchChan, loc>>
          ELSE /\ watchChan' = [watchChan EXCEPT ![i] = Tail(@)]
               /\ IF clientClosed[i]
                     THEN /\ pc' = [pc EXCEPT ![EtcdWatcher(i)] = "exited"]
                          /\ loc' = loc
                     ELSE /\ pc' = [pc EXCEPT ![EtcdWatcher(i)] = "ew_closed"]
                          /\ loc' = [loc EXCEPT
                                ![EtcdWatcher(i)].doc = Head(watchChan[i]),
                                ![EtcdWatcher(i)].decodable = Decodable(Head(watchChan[i])),
                                ![EtcdWatcher(i)].inWindow = (now - lastModTime < DebounceTime),
                                ![EtcdWatcher(i)].pre = Snapshot,
                                ![EtcdWatcher(i)].post = data]
    /\ UNCHANGED loggerVars
    /\ UNCHANGED <<engineVars, now, fs, fsEvents, kv, chanClosed, clientClosed, writes,
                   panicked, ops, closeReturned>>

\* the callback's check of c.closed
EtcdCallbackClosed(i) ==
    /\ Alive
    /\ pc[EtcdWatcher(i)] = "ew_closed"
    /\ IF closed
          THEN /\ pc' = [pc EXCEPT ![EtcdWatcher(i)] = "cycle_end"]
               /\ loc' = [loc EXCEPT ![EtcdWatcher(i)].outcome = "closed"]
          ELSE /\ pc' = [pc EXCEPT ![EtcdWatcher(i)] = "ew_clone"]
               /\ loc' = loc
    /\ UNCHANGED loggerVars
    /\ UNCHANGED <<engineVars, worldVars, panicked, ops, closeReturned>>

\* c.oldData = cloneConfig(c.data): c.data is loaded as the argument
EtcdCallbackClone(i) ==
    /\ Alive
    /\ pc[EtcdWatcher(i)] = "ew_clone"
    /\ loc' = [loc EXCEPT ![EtcdWatcher(i)].held = data]
    /\ pc' = [pc EXCEPT ![EtcdWatcher(i)] = "ew_clone_store"]
    /\ UNCHANGED loggerVars
    /\ UNCHANGED <<engineVars, worldVars, panicked, ops, closeReturned>>

\* cloneConfig returns and its result is stored in c.oldData
EtcdCallbackCloneStore(i) ==
    /\ Alive
    /\ pc[EtcdWatcher(i)] = "ew_clone_store"
    /\ oldData' = cloneConfig(loc[EtcdWatcher(i)].held)
    /\ pc' = [pc EXCEPT ![EtcdWatcher(i)] = "ew_decode"]
    /\ UNCHANGED loggerVars
    /\ UNCHANGED <<data, v, optionVars, changeCallbacks, callbackMu,
                   lastModTime, closed, etcdClients, envOnly, worldVars, loc, panicked, ops,
                   closeReturned>>

\* Unmarshal(data, &newData) by c.configType, into a zero T
EtcdCallbackDecode(i) ==
    /\ Alive
    /\ pc[EtcdWatcher(i)] = "ew_decode"
    /\ IF ~Decodable(loc[EtcdWatcher(i)].doc)
          THEN /\ pc' = [pc EXCEPT ![EtcdWatcher(i)] = "cycle_end"]
               /\ loc' = [loc EXCEPT ![EtcdWatcher(i)].outcome = "failed"]
          ELSE /\ pc' = [pc EXCEPT ![EtcdWatcher(i)] = "ew_assign"]
               /\ loc' = [loc EXCEPT ![EtcdWatcher(i)].newData =
                                         Unmarshal(loc[EtcdWatcher(i)].doc, ZeroT)]
    /\ UNCHANGED loggerVars
    /\ UNCHANGED <<engineVars, worldVars, panicked, ops, closeReturned>>

\* c.data = newData
EtcdCallbackAssign(i) ==
    /\ Alive
    /\ pc[EtcdWatcher(i)] = "ew_assign"
    /\ data' = loc[EtcdWatcher(i)].newData
    /\ loc' = [loc EXCEPT ![EtcdWatcher(i)].post = loc[EtcdWatcher(i)].newData]
    /\ pc' = [pc EXCEPT ![EtcdWatcher(i)] = "ew_diff"]
    /\ UNCHANGED loggerVars
    /\ UNCHANGED <<oldData, v, optionVars, changeCallbacks, callbackMu,
                   lastModTime, closed, etcdClients, envOnly, worldVars, panicked, ops,
                   closeReturned>>

\* findConfigChanges(c.oldData, c.data, c.configFiles[i]): the index is evaluated first
EtcdCallbackDiff(i) ==
    /\ Alive
    /\ pc[EtcdWatcher(i)] = "ew_diff"
    /\ IF i > Len(configFiles)
          THEN /\ Panic(EtcdWatcher(i), IndexRange)
               /\ loc' = [loc EXCEPT ![EtcdWatcher(i)].outcome = "panic"]
               /\ pc' = pc
          ELSE /\ \E changedItems \in findConfigChanges(ValueOf(oldData), ValueOf(data),
                                                        FileName(configFiles[i])) :
                      loc' = [loc EXCEPT ![EtcdWatcher(i)].changes = changedItems]
               /\ pc' = [pc EXCEPT ![EtcdWatcher(i)] = "cb_rlock"]
               /\ UNCHANGED panicked
    /\ UNCHANGED loggerVars
    /\ UNCHANGED <<engineVars, worldVars, ops, closeReturned>>

(***************************************************************************)
(* The public operations, called one after the other by the caller.        *)
(***************************************************************************)
\* the values the caller passes to Update
UpdateArgs == {MkT(1, 1), MkT(0, 1)}

\* the calls explored: one more in the environment-only mode, whose engine runs no watcher
MaxCalls == IF envOnly THEN MaxOps + 1 ELSE MaxOps
CanCallBy(t) == Alive /\ pc[t] = "ready" /\ ops < MaxCalls
CanCall == CanCallBy(Caller)

\* GetData: return c.data, under no lock. The call also records the snapshots before
\* and after the reload that is storing into c.data at that moment, if one is.
GetData ==
    /\ CanCall
    /\ ops' = ops + 1
    /\ loc' = [loc EXCEPT
          ![Caller].op = "GetData",
          ![Caller].ret = data,
          ![Caller].before = IF pc[FileWatcher] = "decode"
                             THEN loc[FileWatcher].pre.data ELSE data,
          ![Caller].after = IF pc[FileWatcher] = "decode"
                            THEN loc[FileWatcher].src ELSE data]
    /\ pc' = [pc EXCEPT ![Caller] = "getdata_ret"]
    /\ UNCHANGED loggerVars
    /\ UNCHANGED <<engineVars, worldVars, panicked, closeReturned>>

\* the caller has the value GetData returned
GetDataReturn ==
    /\ Alive
    /\ pc[Caller] = "getdata_ret"
    /\ pc' = [pc EXCEPT ![Caller] = "ready"]
    /\ loc' = [loc EXCEPT ![Caller] = InitLoc]
    /\ UNCHANGED loggerVars
    /\ UNCHANGED <<engineVars, worldVars, panicked, ops, closeReturned>>

\* OnChange: c.callbackMu.Lock() is requested
OnChange ==
    /\ CanCall
    /\ ops' = ops + 1
    /\ callbackMu' = [callbackMu EXCEPT !.waiting = @ \cup {Caller}]
    /\ loc' = [loc EXCEPT ![Caller].op = "OnChange"]
    /\ pc' = [pc EXCEPT ![Caller] = "onchange_lock"]
    /\ UNCHANGED loggerVars
    /\ UNCHANGED <<data, oldData, v, optionVars, changeCallbacks,
                   lastModTime, closed, etcdClients, envOnly, worldVars, panicked,
                   closeReturned>>

\* the lock is granted once no reader holds it; append; Unlock. A call made by an
\* observer returns into the loop of triggerCallbacks, which goes on to the next observer.
OnChangeAppendBy(t) ==
    /\ Alive
    /\ pc[t] \in {"onchange_lock", "cb_onchange_lock"}
    /\ callbackMu.readers = {}
    /\ callbackMu' = [callbackMu EXCEPT !.waiting = @ \ {t}]
    /\ changeCallbacks' = Append(changeCallbacks, Len(changeCallbacks) + 1)
    /\ pc' = [pc EXCEPT ![t] = IF pc[t] = "onchange_lock" THEN "ready" ELSE "cb_invoke"]
    /\ loc' = [loc EXCEPT ![t] = IF pc[t] = "onchange_lock" THEN InitLoc
                                 ELSE [@ EXCEPT !.i = @ + 1]]
    /\ UNCHANGED loggerVars
    /\ UNCHANGED <<data, oldData, v, optionVars, lastModTime, closed,
                   etcdClients, envOnly, worldVars, panicked, ops, closeReturned>>
OnChangeAppend == OnChangeAppendBy(Caller)

\* Update(data): the branch on the configuration source
UpdateBy(t, arg) ==
    /\ CanCallBy(t)
    /\ ops' = ops + 1
    /\ loc' = [loc EXCEPT ![t].op = "Update", ![t].arg = arg,
                          ![t].err = IF Len(configFiles) = 0 /\ Len(etcdClients) = 0
                                             /\ ~envOnly
                                          THEN "no configuration source" ELSE "",
                          ![t].ncb = Len(changeCallbacks),
                          ![t].open = ~closed,
                          ![t].pre = Snapshot,
                          ![t].clients = etcdClients, ![t].i = 1]
    /\ pc' = [pc EXCEPT ![t] =
                 IF Len(configFiles) > 0 THEN "save_bind"
                 ELSE IF Len(etcdClients) > 0 THEN "etcd_put"
                 ELSE IF envOnly THEN "update_env"
                 ELSE "update_ret"]
    /\ UNCHANGED loggerVars
    /\ UNCHANGED <<engineVars, worldVars, panicked, closeReturned>>
Update(arg) == UpdateBy(Caller, arg)

\* SaveConfig()
SaveConfig ==
    /\ CanCall
    /\ ops' = ops + 1
    /\ loc' = [loc EXCEPT ![Caller].op = "SaveConfig"]
    /\ pc' = [pc EXCEPT ![Caller] = "save_bind"]
    /\ UNCHANGED loggerVars
    /\ UNCHANGED <<engineVars, worldVars, panicked, closeReturned>>

\* an argument of Update that does not encode
UnencodableArg == [port |-> 1, level |-> Rejected]
PersistArgs == UpdateArgs \cup {UnencodableArg}

\* where SaveConfig returns to, and the locals its caller is left with
SaveConfigReturn(err, failed) ==
    /\ pc' = [pc EXCEPT ![Caller] = IF loc[Caller].op = "Update" THEN "update_ret" ELSE "ready"]
    /\ loc' = IF loc[Caller].op = "Update"
                 THEN [loc EXCEPT ![Caller].err = err,
                                  ![Caller].outcome = IF failed THEN "persist_failed" ELSE @]
                 ELSE [loc EXCEPT ![Caller] = InitLoc]

\* SaveConfig's c.bindStruct(c.data): c.data is loaded as the argument and encoded
SaveConfigBind ==
    /\ Alive
    /\ pc[Caller] = "save_bind"
    /\ IF EncodeFails(data)
          THEN SaveConfigReturn("bindStruct", TRUE)
          ELSE /\ loc' = [loc EXCEPT ![Caller].held = data,
                                     ![Caller].settings = Marshal(data).kv]
               /\ pc' = [pc EXCEPT ![Caller] = "save_bind_set"]
    /\ UNCHANGED loggerVars
    /\ UNCHANGED <<engineVars, worldVars, panicked, ops, closeReturned>>

\* bindStruct: one iteration of for k, v := range settings { c.v.Set(k, v) }
SaveConfigBindSet ==
    /\ Alive
    /\ pc[Caller] = "save_bind_set"
    /\ LET settings == loc[Caller].settings
       IN  IF v.nil
              THEN /\ Panic(Caller, NilDeref)
                   /\ UNCHANGED <<v, pc, loc>>
              ELSE \E k \in DOMAIN settings :
                   /\ v' = Viper(Set(v.set, k, settings[k]))
                   /\ loc' = [loc EXCEPT ![Caller].settings = Rest(settings, k)]
                   /\ pc' = [pc EXCEPT ![Caller] =
                                IF DOMAIN settings = {k} THEN "save_write" ELSE @]
                   /\ UNCHANGED panicked
    /\ UNCHANGED loggerVars
    /\ UNCHANGED <<data, oldData, optionVars, changeCallbacks, callbackMu,
                   lastModTime, closed, etcdClients, envOnly, worldVars, ops,
                   closeReturned>>

\* what SaveConfig writes: YAML writes the settings of c.v, JSON and TOML encode c.data
SavedDocument == IF configType = YAML THEN Doc(v.set) ELSE Marshal(data)

\* the error of the encoder SaveConfig runs on c.data in the JSON and TOML branches
SaveEncodeError == IF configType # YAML /\ EncodeFails(data) THEN "encode" ELSE ""

\* the error of the encoder alone, which is not what SaveConfig ends with
EncodeErrorOnly(encodeErr, writeErr) == encodeErr

\* the error SaveConfig ends with: the JSON branch returns the error of its encoder
\* at once, the TOML branch assigns the result of os.WriteFile over it
SaveError(encodeErr, writeErr) ==
    IF configType = JSON /\ encodeErr # "" THEN encodeErr ELSE writeErr

\* the switch of SaveConfig up to the write: the YAML branch evaluates
\* c.configFiles[0] and WriteConfigAs reads the settings of c.v; the JSON branch encodes
\* c.data, returns the error of its encoder, and only then evaluates c.configFiles[0];
\* the TOML branch encodes c.data and goes on whatever the encoder returned
SaveConfigEncode ==
    /\ Alive
    /\ pc[Caller] = "save_write"
    /\ IF configType = JSON /\ SaveEncodeError # ""
          THEN /\ SaveConfigReturn(SaveError(SaveEncodeError, ""), TRUE)
               /\ UNCHANGED panicked
          ELSE IF Len(configFiles) = 0
          THEN /\ Panic(Caller, IndexRange)
               /\ UNCHANGED <<pc, loc>>
          ELSE IF configType = YAML /\ v.nil
          THEN /\ Panic(Caller, NilDeref)
               /\ UNCHANGED <<pc, loc>>
          ELSE /\ loc' = [loc EXCEPT
                              ![Caller].doc = IF SaveEncodeError # "" THEN EmptyDoc
                                              ELSE SavedDocument,
                              ![Caller].err = SaveEncodeError]
               /\ pc' = [pc EXCEPT ![Caller] = "save_file"]
               /\ UNCHANGED panicked
    /\ UNCHANGED loggerVars
    /\ UNCHANGED <<engineVars, worldVars, ops, closeReturned>>

\* the write of c.configFiles[0] succeeds; the file system reports it to the watcher
SaveConfigWrite ==
    /\ Alive
    /\ pc[Caller] = "save_file"
    /\ fs' = [fs EXCEPT ![configFiles[1]] = loc[Caller].doc]
    /\ fsEvents' = fsEvents + 1
    /\ SaveConfigReturn(SaveError(loc[Caller].err, ""), loc[Caller].err # "")
    /\ UNCHANGED loggerVars
    /\ UNCHANGED <<engineVars, now, kv, watchChan, chanClosed, clientClosed, writes,
                   panicked, ops, closeReturned>>

\* the write of c.configFiles[0] fails: WriteConfigAs or os.WriteFile returns an error
SaveConfigWriteFails ==
    /\ Alive
    /\ pc[Caller] = "save_file"
    /\ SaveConfigReturn(SaveError(loc[Caller].err, "write"), TRUE)
    /\ UNCHANGED loggerVars
    /\ UNCHANGED <<engineVars, worldVars, panicked, ops, closeReturned>>

\* saveConfigToETCDs: the argument is encoded and Put, once per client
UpdateEtcdPut ==
    /\ Alive
    /\ pc[Caller] = "etcd_put"
    /\ IF loc[Caller].i > Len(loc[Caller].clients)
          THEN /\ pc' = [pc EXCEPT ![Caller] = "update_ret"]
               /\ UNCHANGED <<kv, watchChan, loc>>
          ELSE IF EncodeFails(loc[Caller].arg)
          THEN /\ pc' = [pc EXCEPT ![Caller] = "update_ret"]
               /\ loc' = [loc EXCEPT ![Caller].err = "encode",
                                     ![Caller].outcome = "persist_failed"]
               /\ UNCHANGED <<kv, watchChan>>
          ELSE LET c == loc[Caller].clients[loc[Caller].i]
               IN  /\ kv' = [kv EXCEPT ![c] = Marshal(loc[Caller].arg)]
                   /\ watchChan' = [watchChan EXCEPT ![c] =
                                       IF chanClosed[c] THEN @
                                       ELSE Append(@, Marshal(loc[Caller].arg))]
                   /\ loc' = [loc EXCEPT ![Caller].i = @ + 1]
                   /\ pc' = pc
    /\ UNCHANGED loggerVars
    /\ UNCHANGED <<engineVars, now, fs, fsEvents, chanClosed, clientClosed, writes,
                   panicked, ops, closeReturned>>

\* saveConfigToETCD: the Put of a client fails, which ends the loop over the clients
UpdateEtcdPutFails ==
    /\ Alive
    /\ pc[Caller] = "etcd_put"
    /\ loc[Caller].i <= Len(loc[Caller].clients)
    /\ ~EncodeFails(loc[Caller].arg)
    /\ pc' = [pc EXCEPT ![Caller] = "update_ret"]
    /\ loc' = [loc EXCEPT ![Caller].err = "put", ![Caller].outcome = "persist_failed"]
    /\ UNCHANGED loggerVars
    /\ UNCHANGED <<engineVars, worldVars, panicked, ops, closeReturned>>

\* the environment-only branch of Update, which takes no lock: the statements of
\* another call may run between any two of its loads and stores.
\* c.oldData = cloneConfig(c.data): c.data is loaded as the argument
UpdateEnvBy(t) ==
    /\ Alive
    /\ pc[t] = "update_env"
    /\ loc' = [loc EXCEPT ![t].held = data]
    /\ pc' = [pc EXCEPT ![t] = "update_env_old"]
    /\ UNCHANGED loggerVars
    /\ UNCHANGED <<engineVars, worldVars, panicked, ops, closeReturned>>
UpdateEnv == UpdateEnvBy(Caller)

\* cloneConfig returns and its result is stored in c.oldData
UpdateEnvOldDataBy(t) ==
    /\ Alive
    /\ pc[t] = "update_env_old"
    /\ oldData' = cloneConfig(loc[t].held)
    /\ pc' = [pc EXCEPT ![t] = "update_env_data"]
    /\ UNCHANGED loggerVars
    /\ UNCHANGED <<data, v, optionVars, changeCallbacks, callbackMu, lastModTime,
                   closed, etcdClients, envOnly, worldVars, loc, panicked, ops,
                   closeReturned>>
UpdateEnvOldData == UpdateEnvOldDataBy(Caller)

\* c.data = data
UpdateEnvDataBy(t) ==
    /\ Alive
    /\ pc[t] = "update_env_data"
    /\ data' = loc[t].arg
    /\ pc' = [pc EXCEPT ![t] = "update_env_bind"]
    /\ UNCHANGED loggerVars
    /\ UNCHANGED <<oldData, v, optionVars, changeCallbacks, callbackMu, lastModTime,
                   closed, etcdClients, envOnly, worldVars, loc, panicked, ops,
                   closeReturned>>
UpdateEnvData == UpdateEnvDataBy(Caller)

\* c.bindStruct(c.data): the value c.data holds by now is loaded as the argument and
\* encoded
UpdateEnvBindBy(t) ==
    /\ Alive
    /\ pc[t] = "update_env_bind"
    /\ IF EncodeFails(data)
          THEN /\ pc' = [pc EXCEPT ![t] = "update_ret"]
               /\ loc' = [loc EXCEPT ![t].err = "bindStruct",
                                     ![t].outcome = "bind_failed"]
          ELSE /\ pc' = [pc EXCEPT ![t] = "update_env_set"]
               /\ loc' = [loc EXCEPT ![t].held = data,
                                     ![t].settings = Marshal(data).kv]
    /\ UNCHANGED loggerVars
    /\ UNCHANGED <<engineVars, worldVars, panicked, ops, closeReturned>>
UpdateEnvBind == UpdateEnvBindBy(Caller)

\* bindStruct: one iteration of for k, v := range settings { c.v.Set(k, v) }; after the
\* last, Update calls triggerCallbacks
UpdateEnvSetBy(t) ==
    /\ Alive
    /\ pc[t] = "update_env_set"
    /\ LET settings == loc[t].settings
       IN  IF v.nil
              THEN /\ Panic(t, NilDeref)
                   /\ UNCHANGED <<v, pc, loc>>
              ELSE \E k \in DOMAIN settings :
                   /\ v' = Viper(Set(v.set, k, settings[k]))
                   /\ loc' = [loc EXCEPT ![t].settings = Rest(settings, k)]
                   /\ pc' = [pc EXCEPT ![t] =
                                IF DOMAIN settings = {k} THEN "trig_closed" ELSE @]
                   /\ UNCHANGED panicked
    /\ UNCHANGED loggerVars
    /\ UNCHANGED <<data, oldData, optionVars, changeCallbacks, callbackMu, lastModTime,
                   closed, etcdClients, envOnly, worldVars, ops, closeReturned>>
UpdateEnvSet == UpdateEnvSetBy(Caller)

\* Update returns loc[Caller].err to its caller
UpdateReturnBy(t) ==
    /\ Alive
    /\ pc[t] = "update_ret"
    /\ pc' = [pc EXCEPT ![t] = "ready"]
    /\ loc' = [loc EXCEPT ![t] = InitLoc]
    /\ UNCHANGED loggerVars
    /\ UNCHANGED <<engineVars, worldVars, panicked, ops, closeReturned>>
UpdateReturn == UpdateReturnBy(Caller)

(***************************************************************************)
(* Close.                                                                  *)
(***************************************************************************)
\* c.closedMu.Lock(); c.closed = true; c.closedMu.Unlock()
Close ==
    /\ CanCall
    /\ ops' = ops + 1
    /\ closed' = TRUE
    /\ loc' = [loc EXCEPT ![Caller].op = "Close"]
    /\ pc' = [pc EXCEPT ![Caller] = "close_lock"]
    /\ UNCHANGED loggerVars
    /\ UNCHANGED <<data, oldData, v, optionVars, changeCallbacks, callbackMu,
                   lastModTime, etcdClients, envOnly, worldVars, panicked, closeReturned>>

\* c.callbackMu.Lock() is requested
CloseLockBy(t) ==
    /\ Alive
    /\ pc[t] \in {"close_lock", "cb_close_lock"}
    /\ callbackMu' = [callbackMu EXCEPT !.waiting = @ \cup {t}]
    /\ pc' = [pc EXCEPT ![t] = IF pc[t] = "close_lock" THEN "close_clear"
                                ELSE "cb_close_clear"]
    /\ UNCHANGED loggerVars
    /\ UNCHANGED <<data, oldData, v, optionVars, changeCallbacks,
                   lastModTime, closed, etcdClients, envOnly, worldVars, loc, panicked, ops,
                   closeReturned>>
CloseLock == CloseLockBy(Caller)

\* the lock is granted once no reader holds it; c.changeCallbacks = nil; Unlock
CloseClearCallbacksBy(t) ==
    /\ Alive
    /\ pc[t] \in {"close_clear", "cb_close_clear"}
    /\ callbackMu.readers = {}
    /\ callbackMu' = [callbackMu EXCEPT !.waiting = @ \ {t}]
    /\ changeCallbacks' = <<>>
    /\ pc' = [pc EXCEPT ![t] = IF pc[t] = "close_clear" THEN "close_release"
                                ELSE "cb_close_release"]
    /\ UNCHANGED loggerVars
    /\ UNCHANGED <<data, oldData, v, optionVars, lastModTime, closed,
                   etcdClients, envOnly, worldVars, loc, panicked, ops, closeReturned>>
CloseClearCallbacks == CloseClearCallbacksBy(Caller)

\* The rest of Close takes no lock: each of its statements is a step of its own, and the
\* steps of the watchers and of other callers may run between them. A label of Close
\* called from a callback is the label of Close with "cb_" before it.
AtClose(t, label) == pc[t] \in {label, "cb_" \o label}
CloseGoto(t, label) ==
    IF pc[t] \in {"close_release", "close_client", "close_conn", "close_v", "close_data",
                  "close_old"}
    THEN label ELSE "cb_" \o label

\* for _, client := range c.etcdClients: the slice is read once
CloseReleaseBy(t) ==
    /\ Alive
    /\ AtClose(t, "close_release")
    /\ loc' = [loc EXCEPT ![t].closing = etcdClients]
    /\ pc' = [pc EXCEPT ![t] = CloseGoto(t, "close_client")]
    /\ UNCHANGED loggerVars
    /\ UNCHANGED <<engineVars, worldVars, panicked, ops, closeReturned>>
CloseRelease == CloseReleaseBy(Caller)

\* client.close() of the next client: first closedMu.Lock(); c.closed = true;
\* closedMu.Unlock(), then c.client.Close(), which ends the watch channel; after the
\* last client, c.etcdClients = nil
CloseClientsBy(t) ==
    /\ Alive
    /\ AtClose(t, "close_client") \/ AtClose(t, "close_conn")
    /\ IF AtClose(t, "close_conn")
          THEN /\ chanClosed' = [chanClosed EXCEPT ![Head(loc[t].closing)] = TRUE]
               /\ loc' = [loc EXCEPT ![t].closing = Tail(@)]
               /\ pc' = [pc EXCEPT ![t] = CloseGoto(t, "close_client")]
               /\ UNCHANGED <<clientClosed, etcdClients>>
          ELSE IF loc[t].closing # <<>>
          THEN /\ clientClosed' = [clientClosed EXCEPT ![Head(loc[t].closing)] = TRUE]
               /\ pc' = [pc EXCEPT ![t] = CloseGoto(t, "close_conn")]
               /\ UNCHANGED <<chanClosed, etcdClients, loc>>
          ELSE /\ etcdClients' = <<>>
               /\ pc' = [pc EXCEPT ![t] = CloseGoto(t, "close_v")]
               /\ UNCHANGED <<chanClosed, clientClosed, loc>>
    /\ UNCHANGED loggerVars
    /\ UNCHANGED <<data, oldData, v, optionVars, changeCallbacks, callbackMu, lastModTime,
                   closed, envOnly, now, fs, fsEvents, kv, watchChan, writes, panicked,
                   ops, closeReturned>>
CloseClients == CloseClientsBy(Caller)

\* c.v = nil
CloseViperBy(t) ==
    /\ Alive
    /\ AtClose(t, "close_v")
    /\ v' = NilViper
    /\ pc' = [pc EXCEPT ![t] = CloseGoto(t, "close_data")]
    /\ UNCHANGED loggerVars
    /\ UNCHANGED <<data, oldData, optionVars, changeCallbacks, callbackMu, lastModTime,
                   closed, etcdClients, envOnly, worldVars, loc, panicked, ops,
                   closeReturned>>
CloseViper == CloseViperBy(Caller)

\* c.data = *new(T)
CloseDataBy(t) ==
    /\ Alive
    /\ AtClose(t, "close_data")
    /\ data' = ZeroT
    /\ pc' = [pc EXCEPT ![t] = CloseGoto(t, "close_old")]
    /\ UNCHANGED loggerVars
    /\ UNCHANGED <<oldData, v, optionVars, changeCallbacks, callbackMu, lastModTime,
                   closed, etcdClients, envOnly, worldVars, loc, panicked, ops,
                   closeReturned>>
CloseData == CloseDataBy(Caller)

\* c.oldData = *new(T); Close returns
CloseOldDataBy(t) ==
    /\ Alive
    /\ AtClose(t, "close_old")
    /\ oldData' = ZeroT
    /\ closeReturned' = TRUE
    /\ pc' = [pc EXCEPT ![t] = IF pc[t] = "close_old" THEN "ready" ELSE "cb_invoke"]
    /\ loc' = [loc EXCEPT ![t] = IF pc[t] = "close_old" THEN InitLoc
                                 ELSE [@ EXCEPT !.i = @ + 1]]
    /\ UNCHANGED loggerVars
    /\ UNCHANGED <<data, v, optionVars, changeCallbacks, callbackMu, lastModTime,
                   closed, etcdClients, envOnly, worldVars, panicked, ops>>
CloseOldData == CloseOldDataBy(Caller)

(***************************************************************************)
(* Other processes: an editor writing a configuration file, a client       *)
(* putting an ETCD key.                                                    *)
(***************************************************************************)
\* A write commutes with every step of a public operation but SaveConfig's own write,
\* so it is taken between two operations of the caller.
ExternalDocs == {Doc(MkT(1, 1)), Doc(MkT(0, 1)), Malformed}
\* a file that parses, with a level that is no int
MistypedDoc == Doc([port |-> 1, level |-> NotAnInt])
ExternalFileDocs == ExternalDocs \cup {MistypedDoc}

ExternalFileWrite(f, doc) ==
    /\ Alive
    /\ pc[Caller] = "ready"
    /\ writes < MaxWrites
    /\ f \in DOMAIN fs
    /\ writes' = writes + 1
    /\ fs' = [fs EXCEPT ![f] = doc]
    /\ fsEvents' = fsEvents + 1
    /\ UNCHANGED loggerVars
    /\ UNCHANGED <<engineVars, now, kv, watchChan, chanClosed, clientClosed, taskVars>>

ExternalPut(i, doc) ==
    /\ Alive
    /\ pc[Caller] = "ready"
    /\ writes < MaxWrites
    /\ i \in DOMAIN kv
    /\ writes' = writes + 1
    /\ kv' = [kv EXCEPT ![i] = doc]
    /\ watchChan' = [watchChan EXCEPT ![i] = IF chanClosed[i] THEN @ ELSE Append(@, doc)]
    /\ UNCHANGED loggerVars
    /\ UNCHANGED <<engineVars, now, fs, fsEvents, chanClosed, clientClosed, taskVars>>

(***************************************************************************)
(* The engine in each source mode. A mode's next-state                     *)
(* relation holds the steps that mode can take: the KV mode reads no       *)
(* clock, and only the environment-only mode dispatches from Update.       *)
(* The engines of the mode specifications are built with the default       *)
(* configuration type of NewConfig.                                        *)
(***************************************************************************)
CallerCommon ==
    \/ GetData
    \/ GetDataReturn
    \/ OnChange
    \/ OnChangeAppend
    \/ \E arg \in UpdateArgs : Update(arg)
    \/ UpdateReturn
    \/ SaveConfig
    \/ SaveConfigBind
    \/ SaveConfigBindSet
    \/ SaveConfigEncode
    \/ Close
    \/ CloseLock
    \/ CloseClearCallbacks
    \/ CloseRelease
    \/ CloseClients
    \/ CloseViper
    \/ CloseData
    \/ CloseOldData

NextFile ==
    \/ Tick
    \/ CallerCommon
    \/ SaveConfigWrite
    \/ FileWatcherEvent
    \/ FileWatcherLoad
    \/ FileWatcherSet
    \/ FileWatcherUnmarshal
    \/ FileWatcherDecodeField
    \/ TrigClosed(FileWatcher)
    \/ TrigDebounce(FileWatcher)
    \/ TrigStamp(FileWatcher)
    \/ TrigDiff(FileWatcher)
    \/ TrigDiffData(FileWatcher)
    \/ CallbackRLock(FileWatcher)
    \/ CallbackInvoke(FileWatcher)
    \/ CallbackReturn(FileWatcher)
    \/ WatcherLoop(FileWatcher)
    \/ \E f \in 1 .. MaxFiles, doc \in ExternalFileDocs : ExternalFileWrite(f, doc)

NextEtcd ==
    \/ CallerCommon
    \/ UpdateEtcdPut
    \/ \E i \in 1 .. MaxClients : EtcdWatcherEvent(i)
    \/ \E i \in 1 .. MaxClients : EtcdCallbackClosed(i)
    \/ \E i \in 1 .. MaxClients : EtcdCallbackClone(i)
    \/ \E i \in 1 .. MaxClients : EtcdCallbackCloneStore(i)
    \/ \E i \in 1 .. MaxClients : EtcdCallbackDecode(i)
    \/ \E i \in 1 .. MaxClients : EtcdCallbackAssign(i)
    \/ \E i \in 1 .. MaxClients : EtcdCallbackDiff(i)
    \/ \E i \in 1 .. MaxClients : WatcherLoop(EtcdWatcher(i))
    \/ \E i \in 1 .. MaxClients, doc \in ExternalDocs : ExternalPut(i, doc)

NextEnv ==
    \/ Tick
    \/ CallerCommon
    \/ \E arg \in UpdateArgs : UpdateBy(Updater, arg)
    \/ \E t \in Callers : UpdateEnvBy(t)
    \/ \E t \in Callers : UpdateEnvOldDataBy(t)
    \/ \E t \in Callers : UpdateEnvDataBy(t)
    \/ \E t \in Callers : UpdateEnvBindBy(t)
    \/ \E t \in Callers : UpdateEnvSetBy(t)
    \/ \E t \in Callers : UpdateReturnBy(t)
    \/ \E t \in Callers : TrigClosed(t)
    \/ \E t \in Callers : TrigDebounce(t)
    \/ \E t \in Callers : TrigStamp(t)
    \/ \E t \in Callers : TrigDiff(t)
    \/ \E t \in Callers : TrigDiffData(t)
    \/ \E t \in Callers : CallbackRLock(t)
    \/ \E t \in Callers : CallbackInvoke(t)
    \/ \E t \in Callers : CallbackReturn(t)

(***************************************************************************)
(* NewConfig, from the Config the options have filled in to the engine it  *)
(* returns, or its error.                                                  *)
(***************************************************************************)
\* what a configuration file may hold when NewConfig is called: nothing, a document,
\* bytes that do not parse, or a document with a scalar that does not convert
FoundFileDocs == InitFileDocs \cup {Malformed, MistypedDoc}
\* what an ETCD key may hold when NewConfig is called: also a document with a scalar
\* that does not convert
FoundKvDocs == InitKvDocs \cup {MistypedDoc}

\* the Config after the options were applied: any number of files, of ETCD
\* configurations, WithEnvOnly or not; the files and keys as they are found
Options ==
    \E def \in DefaultConfigs, nf \in 0 .. MaxFiles, ne \in 0 .. MaxClients :
    \E files \in [1 .. nf -> FoundFileDocs], keys \in [1 .. ne -> FoundKvDocs] :
        /\ data = def
        /\ oldData = cloneConfig(def)
        /\ v = Viper(<<>>)
        /\ configFiles = [i \in 1 .. nf |-> i]
        /\ etcdConfigs = [i \in 1 .. ne |-> i]
        /\ envOnly \in BOOLEAN
        /\ etcdClients = <<>>
        /\ fs = files
        /\ kv = keys
        /\ watchChan = [i \in 1 .. ne |-> <<>>]
        /\ chanClosed = [i \in 1 .. ne |-> FALSE]
        /\ clientClosed = [i \in 1 .. ne |-> FALSE]
        /\ pc = [t \in Tasks |-> IF t = Caller THEN "new" ELSE "none"]

\* NewConfig after its options: the check of the sources, the default of the
\* environment-only mode, and the init of the mode chosen
NewConfig ==
    /\ pc[Caller] = "new"
    /\ LET conflict == Len(configFiles) > 0 /\ Len(etcdConfigs) > 0
           only == envOnly \/ (Len(configFiles) = 0 /\ Len(etcdConfigs) = 0)
           files == initWithFiles(data, fs, enableEnv, env)
           etcds == initWithETCDs(data, kv)
           envs == initWithEnv(data, env)
           mode == IF conflict \/ (~only /\ Len(configFiles) > 0 /\ files.err) THEN "error"
                   ELSE IF only THEN "env"
                   ELSE IF Len(configFiles) > 0 THEN "files"
                   ELSE "etcds"
       IN  /\ loc' = [loc EXCEPT ![Caller].op = "NewConfig",
                                 ![Caller].err = IF mode = "error" THEN "NewConfig" ELSE ""]
           /\ pc' = [t \in Tasks |->
                        IF t = Caller THEN (IF mode = "error" THEN "new_err" ELSE "ready")
                        ELSE IF mode = "env" /\ t = Updater THEN "ready"
                        ELSE IF mode = "files" /\ t = FileWatcher THEN "idle"
                        ELSE IF mode = "etcds" /\ t \in {EtcdWatcher(i) : i \in DOMAIN etcdConfigs}
                             THEN "idle"
                        ELSE "none"]
           /\ envOnly' = IF conflict THEN envOnly ELSE only
           /\ v' = IF mode = "files" THEN files.v ELSE IF mode = "env" THEN envs.v ELSE v
           /\ data' = IF mode = "files" THEN files.data
                      ELSE IF mode = "env" THEN envs.data
                      ELSE IF mode = "etcds" THEN etcds.data
                      ELSE data
           /\ fs' = IF ~conflict /\ ~only /\ Len(configFiles) > 0 THEN files.fs ELSE fs
           /\ kv' = IF mode = "etcds" THEN etcds.kv ELSE kv
           /\ etcdClients' = IF mode = "etcds" THEN etcdConfigs ELSE etcdClients
    /\ UNCHANGED loggerVars
    /\ UNCHANGED <<oldData, optionVars, changeCallbacks, callbackMu, lastModTime, closed,
                   now, fsEvents, watchChan, chanClosed, clientClosed, writes,
                   panicked, ops, closeReturned>>

InitNew == InitCommon /\ configType = YAML /\ enableEnv \in BOOLEAN /\ env \in Envs /\ Options
NextNew == NewConfig
SpecNew == InitNew /\ [][NextNew]_vars

\* the options of the mode specifications: the default type, no overlay
PlainOptions == configType = YAML /\ enableEnv = FALSE /\ env = NoEnv
InitEnvMode == InitCommon /\ PlainOptions /\ InitEnv
SpecEnv == InitEnvMode /\ [][NextEnv]_vars

\* The engine on one source, with every operation of the caller; and the engine on
\* several sources, where the caller only registers observers and closes it while the
\* watchers serve what other processes write.
InitOneFile == InitCommon /\ PlainOptions /\ InitFilesN(1)
\* file mode with WithEnv(true) and the variable of port set to 1
InitOneFileEnv ==
    InitCommon /\ configType = YAML /\ enableEnv = TRUE /\ env = PortEnv("1") /\ InitFilesN(1)
InitOneKey == InitCommon /\ PlainOptions /\ InitETCDsN(1)
InitSeveralFiles == InitCommon /\ PlainOptions /\ InitFilesN(MaxFiles)
InitSeveralKeys == InitCommon /\ PlainOptions /\ InitETCDsN(MaxClients)
CallerCloses ==
    \/ Close
    \/ CloseLock
    \/ CloseClearCallbacks
    \/ CloseRelease
    \/ CloseClients
    \/ CloseViper
    \/ CloseData
    \/ CloseOldData
NextSeveralFiles ==
    \/ Tick
    \/ CallerCloses
    \/ OnChange
    \/ OnChangeAppend
    \/ FileWatcherEvent
    \/ FileWatcherLoad
    \/ FileWatcherSet
    \/ FileWatcherUnmarshal
    \/ FileWatcherDecodeField
    \/ TrigClosed(FileWatcher)
    \/ TrigDebounce(FileWatcher)
    \/ TrigStamp(FileWatcher)
    \/ TrigDiff(FileWatcher)
    \/ TrigDiffData(FileWatcher)
    \/ CallbackRLock(FileWatcher)
    \/ CallbackInvoke(FileWatcher)
    \/ CallbackReturn(FileWatcher)
    \/ WatcherLoop(FileWatcher)
    \/ \E f \in 1 .. MaxFiles, doc \in ExternalFileDocs : ExternalFileWrite(f, doc)
NextSeveralKeys ==
    \/ CallerCloses
    \/ \E i \in 1 .. MaxClients : EtcdWatcherEvent(i)
    \/ \E i \in 1 .. MaxClients : EtcdCallbackClosed(i)
    \/ \E i \in 1 .. MaxClients : EtcdCallbackClone(i)
    \/ \E i \in 1 .. MaxClients : EtcdCallbackCloneStore(i)
    \/ \E i \in 1 .. MaxClients : EtcdCallbackDecode(i)
    \/ \E i \in 1 .. MaxClients : EtcdCallbackAssign(i)
    \/ \E i \in 1 .. MaxClients : EtcdCallbackDiff(i)
    \/ \E i \in 1 .. MaxClients : WatcherLoop(EtcdWatcher(i))
    \/ \E i \in 1 .. MaxClients, doc \in ExternalDocs : ExternalPut(i, doc)
SpecOneFile == InitOneFile /\ [][NextFile]_vars
SpecOneFileEnv == InitOneFileEnv /\ [][NextFile]_vars
SpecOneKey == InitOneKey /\ [][NextEtcd]_vars
SpecSeveralFiles == InitSeveralFiles /\ [][NextSeveralFiles]_vars
SpecSeveralKeys == InitSeveralKeys /\ [][NextSeveralKeys]_vars

(***************************************************************************)
(* Properties of Update.                                                   *)
(***************************************************************************)
\* C1: when Update(v) returns, having been called on an open engine with at least one
\* registered observer and a snapshot other than v, the call has invoked every
\* registered observer exactly once, in every source mode
C1_UpdateInvokesEachObserverOnce ==
    (/\ pc[Caller] = "update_ret"
     /\ loc[Caller].open
     /\ loc[Caller].ncb > 0
     /\ loc[Caller].arg # loc[Caller].pre.data)
    => loc[Caller].calls = [j \in 1 .. loc[Caller].ncb |-> j]

\* C2: when Update(v) returns without error on an open engine, the snapshot GetData
\* returns is v, and the first configured file (file mode) or every configured key
\* (KV mode) holds the serialization of v
C2_UpdateReplacesAndPersists ==
    (/\ pc[Caller] = "update_ret"
     /\ loc[Caller].open
     /\ loc[Caller].err = "")
    => /\ data = loc[Caller].arg
       /\ Len(configFiles) > 0 => fs[configFiles[1]] = Marshal(loc[Caller].arg)
       /\ \A j \in DOMAIN loc[Caller].clients :
             kv[loc[Caller].clients[j]] = Marshal(loc[Caller].arg)

(***************************************************************************)
(* Properties of the watcher-triggered reload cycle.                       *)
(***************************************************************************)
\* a watcher's cycle is over: it is back at the end of its loop, or it ended the process
CycleOver(t) == pc[t] = "cycle_end" \/ panicked.task = t

\* C3: the batch a dispatching reload cycle hands to the observers is the diff of the
\* snapshot that was current just before the reload and the snapshot it loaded
C3_BatchIsDiffOfPreviousAndNew ==
    \A t \in Watchers :
        (pc[t] = "cb_invoke" /\ Len(loc[t].cbs) > 0 /\ ~closed)
        => loc[t].changes \in
              findConfigChanges(ValueOf(loc[t].pre.data), ValueOf(loc[t].post), "")

\* C4: in file and KV mode, of the decodable signals handled on an open engine exactly
\* those outside the debounce window of the last accepted one end in a dispatch: of two
\* signals within one window, one is dispatched and the other is not
C4_OneDispatchPerDebounceWindow ==
    \A t \in Watchers :
        (CycleOver(t) /\ loc[t].decodable /\ ~closed)
        => ((loc[t].outcome = "dispatched") <=> ~loc[t].inWindow)

\* C5: a signal dropped by the debounce leaves the current snapshot, the previous
\* snapshot and the last-accepted timestamp as they were when it arrived
C5_DroppedSignalChangesNothing ==
    \A t \in Watchers :
        (pc[t] = "cycle_end" /\ loc[t].outcome = "dropped" /\ ~closed)
        => Snapshot = loc[t].pre

\* C6: what GetData returns is the whole snapshot from before or the whole snapshot
\* from after the reload it interleaves with, never a mix of their fields
C6_GetDataReturnsWholeSnapshot ==
    pc[Caller] = "getdata_ret"
    => loc[Caller].ret \in {loc[Caller].before, loc[Caller].after}

\* a task is inside a cycle from its snapshot swap or debounce check to the end of
\* its dispatch
InCycle(t) ==
    pc[t] \in {"unmarshal", "decode", "trig_closed", "trig_debounce", "trig_diff",
               "trig_stamp", "ew_clone", "ew_decode", "ew_assign", "ew_diff", "update_env",
               "update_env_old", "update_env_data", "update_env_bind", "update_env_set",
               "trig_diff_data", "ew_clone_store",
               "cb_rlock", "cb_invoke"}

\* C7: two reload cycles never overlap: at most one task at a time is between the
\* start of its snapshot swap and the end of its dispatch
C7_CyclesNeverOverlap == Cardinality({t \in Tasks : InCycle(t)}) <= 1

(***************************************************************************)
(* Properties of Close.                                                    *)
(***************************************************************************)
\* C8: no observer callback begins once Close has set the closed flag
C8_NoCallbackOnceClosed ==
    [][\A t \in Tasks : Len(loc'[t].calls) > Len(loc[t].calls) => ~closed]_vars

\* C9: a watcher-triggered reload that Close interleaves with finishes without a fault:
\* no watcher dereferences what Close has set to nil
C9_ReloadSurvivesClose ==
    \A t \in Watchers : ~(closed /\ panicked.task = t /\ panicked.cause = NilDeref)

\* C10: after Close has returned, no public operation of the caller panics
C10_NoPanicAfterClose == ~(closeReturned /\ panicked.task = Caller)

\* C11: closed is terminal: in every state after Close has returned, the stored
\* snapshot is the zero value of T and the observer list is empty
C11_ClosedIsTerminal == closeReturned => (data = ZeroT /\ changeCallbacks = <<>>)

\* C12: a watcher-triggered reload that fails invokes no observer and leaves the
\* snapshot GetData returns exactly as it was before the reload began
C12_FailedReloadLeavesSnapshot ==
    \A t \in Watchers :
        (pc[t] = "cycle_end" /\ loc[t].outcome = "failed" /\ ~closed)
        => (data = loc[t].pre.data /\ loc[t].calls = <<>>)

(***************************************************************************)
(* Properties of NewConfig.                                                *)
(***************************************************************************)
\* the number of source kinds the options select
SourceKinds ==
    (IF Len(configFiles) > 0 THEN 1 ELSE 0) + (IF Len(etcdConfigs) > 0 THEN 1 ELSE 0)
    + (IF envOnly THEN 1 ELSE 0)

\* C13: NewConfig returns an error and no engine whenever its options select more than
\* one source kind among files, KV locations and environment-only
C13_MixedSourcesRejected ==
    (loc[Caller].op = "NewConfig" /\ SourceKinds > 1) => loc[Caller].err # ""

(***************************************************************************)
(* Properties of the environment overlay.                                  *)
(***************************************************************************)
\* C14: with the overlay enabled, whenever the engine is open and no reload is under
\* way (after construction and after every watcher-triggered reload), each field whose
\* environment variable is set to an int holds the value of the variable
C14_EnvironmentWins ==
    (enableEnv /\ ~closed /\ pc[FileWatcher] \in {"idle", "sleep", "cycle_end"})
    => \A k \in Keys : env[k] \in Digits => data[k] = ParseInt(env[k])

(***************************************************************************)
(* Properties of the dispatch.                                             *)
(***************************************************************************)
\* the paths of the items of a batch
Paths(changes) == {changes[j].Path : j \in DOMAIN changes}

\* C15: in file mode, the reload of an external write that changed the snapshot hands
\* the registered observers one item per field the reload changed and no item for a
\* field it left unchanged
C15_ExternalWriteIsReported ==
    (/\ pc[FileWatcher] = "cb_invoke"
     /\ Len(loc[FileWatcher].cbs) > 0
     /\ ~closed
     /\ loc[FileWatcher].pre.data # loc[FileWatcher].post)
    => Paths(loc[FileWatcher].changes)
          = {k \in Keys : loc[FileWatcher].pre.data[k] # loc[FileWatcher].post[k]}

\* C16: a cycle whose batch is empty invokes no observer
C16_EmptyBatchIsNotDispatched ==
    \A t \in Tasks : loc[t].changes = <<>> => loc[t].calls = <<>>

\* C17: a dispatch invokes the observers registered when it took the lock, each once
\* and in the order of their registration, the list being unchanged while it runs,
\* and it returns only after the last of them
C17_DispatchInvokesAllInOrder ==
    \A t \in Tasks :
        /\ pc[t] = "cb_invoke"
              => /\ changeCallbacks = loc[t].cbs
                 /\ loc[t].calls = SubSeq(loc[t].cbs, 1, loc[t].i - 1)
        /\ loc[t].outcome = "dispatched" => loc[t].calls = loc[t].cbs

\* a dispatch of Update has returned after invoking two observers in their order
C17_Witness ==
    /\ pc[Caller] = "update_ret"
    /\ loc[Caller].outcome = "dispatched"
    /\ loc[Caller].calls = <<1, 2>>

\* C18: when Update returns without error on an open engine with a file or KV source,
\* it has recorded the debounce timestamp: a watcher event for its own write, arriving
\* now, falls in the debounce window
C18_UpdateRecordsTimestamp ==
    (/\ pc[Caller] = "update_ret"
     /\ loc[Caller].open
     /\ loc[Caller].err = ""
     /\ ~envOnly
     /\ ~closed)
    => now - lastModTime < DebounceTime

\* C19: dispatches exclude each other: at most one task at a time is inside the loop
\* that invokes the observers
C19_DispatchesExclusive ==
    Cardinality({t \in Tasks : pc[t] = "cb_invoke" /\ Len(loc[t].cbs) > 0}) <= 1

(***************************************************************************)
(* Properties of the KV watcher.                                           *)
(***************************************************************************)
\* C20: in KV mode, the cycle of a put whose value decodes, on an open engine, ends
\* with the observers dispatched and the watcher task alive to serve later events
C20_KvPutIsServed ==
    \A t \in EtcdWatchers :
        (CycleOver(t) /\ loc[t].decodable /\ loc[t].outcome # "closed" /\ ~closed)
        => (panicked.task # t /\ loc[t].outcome = "dispatched")

(***************************************************************************)
(* Properties of construction.                                             *)
(***************************************************************************)
\* the options select the KV source alone
KvOptions == Len(etcdConfigs) > 0 /\ Len(configFiles) = 0 /\ ~envOnly

\* C21: construction in KV mode writes the serialized default to every configured key
\* that was absent, and leaves every key that was present as it found it
C21_AbsentKeyGetsDefault ==
    [][(pc[Caller] = "new" /\ pc'[Caller] = "ready" /\ KvOptions)
       => \A i \in DOMAIN kv :
             /\ kv[i] = Absent => kv'[i] = Marshal(data)
             /\ kv[i].st = "ok" => kv'[i] = kv[i]]_vars

\* C22: construction in KV mode with a configured key whose bytes do not decode
\* returns an error and no engine, and writes nothing to the store
C22_KvLoadFailureIsAnError ==
    [][(pc[Caller] = "new" /\ pc'[Caller] # "new" /\ KvOptions
        /\ \E i \in DOMAIN kv : kv[i].st = "malformed")
       => (pc'[Caller] = "new_err" /\ loc'[Caller].err # "" /\ kv' = kv)]_vars

\* the options select the files alone
FileOptions == Len(configFiles) > 0 /\ Len(etcdConfigs) = 0 /\ ~envOnly

\* C23: construction in file mode creates every configured file that was missing with
\* the serialized default in it
C23_MissingFileGetsDefault ==
    [][(pc[Caller] = "new" /\ pc'[Caller] = "ready" /\ FileOptions)
       => \A i \in DOMAIN fs : fs[i] = Absent => fs'[i] = Marshal(data)]_vars

(***************************************************************************)
(* The round trip through the files: an engine is constructed, persists    *)
(* its snapshot, and the process is replaced by one that constructs an     *)
(* engine on the same files from the zero value.                           *)
(***************************************************************************)
RoundDefaults == AppConfig
\* a file of the round trip that is there before the first engine
RoundFileDocs == {Absent, Doc([port |-> 0, max_conns |-> 1])}

\* the Config after WithConfigFiles and WithConfigType, for any default value
RoundOptions ==
    \E def \in RoundDefaults, nf \in 1 .. MaxFiles :
    \E files \in [1 .. nf -> RoundFileDocs] :
        /\ data = def
        /\ oldData = cloneConfig(def)
        /\ v = Viper(<<>>)
        /\ configFiles = [i \in 1 .. nf |-> i]
        /\ etcdConfigs = <<>>
        /\ envOnly = FALSE
        /\ etcdClients = <<>>
        /\ fs = files
        /\ kv = <<>>
        /\ watchChan = <<>>
        /\ chanClosed = <<>>
        /\ clientClosed = <<>>
        /\ pc = [t \in Tasks |-> IF t = Caller THEN "new" ELSE "none"]

\* the process ends and a fresh one applies the same options to the zero value: the
\* Config of NewConfig before its init. The caller keeps the snapshots of the engine
\* that ended, and whether that engine had persisted.
Restart ==
    /\ Alive
    /\ pc[Caller] = "ready"
    /\ data' = ZeroOf(data)
    /\ oldData' = cloneConfig(ZeroOf(data))
    /\ v' = Viper(<<>>)
    /\ changeCallbacks' = <<>>
    /\ callbackMu' = RWUnlocked
    /\ lastModTime' = ZeroTime
    /\ closed' = FALSE
    /\ etcdClients' = <<>>
    /\ pc' = [t \in Tasks |-> IF t = Caller THEN "new" ELSE "none"]
    /\ loc' = [t \in Tasks |->
                  IF t = Caller
                  THEN [InitLoc EXCEPT !.pre = Snapshot,
                                       !.outcome = IF ops > 0 THEN "persisted" ELSE "restarted"]
                  ELSE InitLoc]
    /\ UNCHANGED loggerVars
    /\ UNCHANGED <<optionVars, envOnly, worldVars, panicked, ops, closeReturned>>

InitRound ==
    InitCommon /\ configType \in ConfigTypes /\ enableEnv \in BOOLEAN /\ env = NoEnv
    /\ RoundOptions
NextRound ==
    \/ NewConfig
    \/ SaveConfig
    \/ SaveConfigBind
    \/ SaveConfigBindSet
    \/ SaveConfigEncode
    \/ SaveConfigWrite
    \/ Restart
SpecRound == InitRound /\ [][NextRound]_vars

\* the files of the first engine did not exist when it was constructed: each holds
\* nothing, or what that engine persisted
SourceWasNew ==
    \A i \in DOMAIN fs : fs[i].kv \in {<<>>, Marshal(loc[Caller].pre.data).kv}

\* C24: an engine constructed from the zero value on the files of an engine that was
\* constructed from the default value d on no file and has persisted its snapshot
\* obtains a snapshot equal to d, in each of the three formats
C24_RoundTrip ==
    (pc[Caller] = "ready" /\ loc[Caller].op = "NewConfig"
     /\ loc[Caller].outcome = "persisted" /\ SourceWasNew)
    => data = loc[Caller].pre.oldData

\* the one external write so far was made to the last of several files, and put there
\* a document that decodes and that no file held at construction
LastFileWritten ==
    /\ Len(fs) > 1
    /\ writes = 1
    /\ fs[Len(fs)] \in ExternalDocs \ {CreatedFile(d) : d \in InitFileDocs}

\* C25: once the watcher has served every event of a write to the last of several
\* files, the snapshot holds what that file sets
C25_AnyFileIsReloaded ==
    (LastFileWritten /\ Alive /\ ~closed /\ pc[FileWatcher] = "idle" /\ fsEvents = 0)
    => data = Unmarshal(fs[Len(fs)], data)

(***************************************************************************)
(* Update in the file mode and the KV mode, in each format, with writes    *)
(* and puts that may fail and an argument that may not encode, while the   *)
(* file watcher reloads what the engine and another process write.         *)
(***************************************************************************)
InitPersist ==
    /\ InitCommon
    /\ configType \in ConfigTypes /\ enableEnv = FALSE /\ env = NoEnv
    /\ (InitFilesN(1) \/ InitETCDs)
NextPersist ==
    \/ \E arg \in PersistArgs : Update(arg)
    \/ SaveConfigBind
    \/ SaveConfigBindSet
    \/ SaveConfigEncode
    \/ SaveConfigWrite
    \/ SaveConfigWriteFails
    \/ UpdateEtcdPut
    \/ UpdateEtcdPutFails
    \/ UpdateReturn
    \/ Tick
    \/ FileWatcherEvent
    \/ FileWatcherLoad
    \/ FileWatcherSet
    \/ FileWatcherUnmarshal
    \/ FileWatcherDecodeField
    \/ TrigClosed(FileWatcher)
    \/ TrigDebounce(FileWatcher)
    \/ TrigStamp(FileWatcher)
    \/ TrigDiff(FileWatcher)
    \/ TrigDiffData(FileWatcher)
    \/ CallbackRLock(FileWatcher)
    \/ CallbackReturn(FileWatcher)
    \/ WatcherLoop(FileWatcher)
    \/ ExternalFileWrite(1, Doc(MkT(1, 1)))
SpecPersist == InitPersist /\ [][NextPersist]_vars

\* C26: an Update whose persistence failed, in the encoding of the value, the write of
\* the file or the put of a key, returns a non-nil error
C26_PersistFailureIsReturned ==
    (pc[Caller] = "update_ret" /\ loc[Caller].op = "Update"
     /\ loc[Caller].outcome = "persist_failed")
    => loc[Caller].err # ""

\* an Update in TOML whose write of the file failed is about to return
C26_Witness ==
    /\ pc[Caller] = "update_ret" /\ loc[Caller].op = "Update"
    /\ loc[Caller].outcome = "persist_failed"
    /\ configType = TOML /\ Len(configFiles) > 0
    /\ loc[Caller].err = "write"

\* the receive a watcher task waits in between two cycles: of an event of the fsnotify
\* watcher, or of a response or the closing of the watch channel of its client
WatcherReceive(t) == IF t = FileWatcher THEN FileWatcherEvent ELSE EtcdWatcherEvent(t[2])

\* C27: after Close has returned, no watcher task is left waiting for an event that has
\* not come: each has terminated, or is running its last cycle, or can take the step
\* that makes it terminate
C27_WatchersTerminateAfterClose ==
    (closeReturned /\ Alive)
    => \A t \in Watchers : pc[t] = "idle" => ENABLED WatcherReceive(t)

(***************************************************************************)
(* findConfigChanges on its own: it is applied to each pair of values of   *)
(*   type Inner struct {                                                   *)
(*       Host   string `yaml:"host" json:"h"`                              *)
(*       Port   int                                                        *)
(*       secret int                                                        *)
(*       Extra  int    `yaml:",omitempty" json:"e"`                        *)
(*   }                                                                     *)
(*   type Span struct { N int }                                            *)
(*   type Outer struct {                                                   *)
(*       Server Inner          `yaml:"server"`                             *)
(*       Level  int            `yaml:"-" json:"level,omitempty"`           *)
(*       Labels map[string]int `yaml:"labels"`                             *)
(*       hidden Span                                                       *)
(*   }                                                                     *)
(***************************************************************************)
MaxLen == 2           \* the longest slice of a Shelf
MaxShort == 1         \* the longest slice of a Catalog and of a Gauge

Hosts == {"a", "b"}
LabelKeys == {"k1", "k2"}
Inner(h, p, s, e) ==
    StructV("Inner", << Field("Host", <<"host">>, <<"h">>, TRUE, StrV(h)),
                        Field("Port", NoTag, NoTag, TRUE, IntV(p)),
                        Field("secret", NoTag, NoTag, FALSE, IntV(s)),
                        Field("Extra", <<"", "omitempty">>, <<"e">>, TRUE, IntV(e)) >>)
Inners == {Inner(h, p, s, e) : h \in Hosts, p \in Vals, s \in Vals, e \in Vals}
Span(n) == StructV("Span", << Field("N", NoTag, NoTag, TRUE, IntV(n)) >>)
LabelMaps ==
    UNION {{MapV("map[string]int", [k \in K |-> IntV(f[k])]) : f \in [K -> Vals]} :
             K \in SUBSET LabelKeys}
\* the slices of ints of at most n elements
IntSlices(n) ==
    UNION {{SliceV("[]int", [i \in 1 .. k |-> IntV(f[i])]) : f \in [1 .. k -> Vals]} :
             k \in 0 .. n}
Outer(in, l, m, sp) ==
    StructV("Outer", << Field("Server", <<"server">>, NoTag, TRUE, in),
                        Field("Level", <<"-">>, <<"level", "omitempty">>, TRUE, IntV(l)),
                        Field("Labels", <<"labels">>, NoTag, TRUE, m),
                        Field("hidden", NoTag, NoTag, FALSE, sp) >>)
Outers ==
    {Outer(in, l, m, Span(n)) : in \in Inners, l \in Vals, m \in LabelMaps, n \in Vals}

\* a caller holds the two arguments of a call of findConfigChanges; no engine is involved
HoldsArguments(old, new) ==
    /\ data = ZeroT
    /\ oldData = ZeroT
    /\ v = NilViper
    /\ configFiles = <<>>
    /\ etcdConfigs = <<>>
    /\ enableEnv = FALSE
    /\ env = NoEnv
    /\ configType = YAML
    /\ changeCallbacks = <<>>
    /\ callbackMu = RWUnlocked
    /\ lastModTime = ZeroTime
    /\ closed = FALSE
    /\ etcdClients = <<>>
    /\ envOnly = FALSE
    /\ now = 0
    /\ fs = <<>>
    /\ fsEvents = 0
    /\ kv = <<>>
    /\ watchChan = <<>>
    /\ chanClosed = <<>>
    /\ clientClosed = <<>>
    /\ writes = 0
    /\ pc = [t \in Tasks |-> IF t = Caller THEN "diff" ELSE "none"]
    /\ loc = [t \in Tasks |->
                 IF t = Caller
                 THEN [InitLoc EXCEPT !.op = "findConfigChanges",
                                      !.before = old, !.after = new]
                 ELSE InitLoc]
    /\ panicked = NoPanic
    /\ ops = 0
    /\ closeReturned = FALSE
    /\ LoggerIdle

InitDiff == \E old \in Outers, new \in Outers : HoldsArguments(old, new)

\* changes := findConfigChanges(oldData, newData, "")
CallFindConfigChanges ==
    /\ pc[Caller] = "diff"
    /\ \E changes \in findConfigChanges(loc[Caller].before, loc[Caller].after, "") :
          loc' = [loc EXCEPT ![Caller].changes = changes]
    /\ pc' = [pc EXCEPT ![Caller] = "diff_ret"]
    /\ UNCHANGED loggerVars
    /\ UNCHANGED <<engineVars, worldVars, panicked, ops, closeReturned>>

NextDiff == CallFindConfigChanges
SpecDiff == InitDiff /\ [][NextDiff]_vars

\* a call of findConfigChanges has returned
Diffed == pc[Caller] = "diff_ret" /\ loc[Caller].op = "findConfigChanges"

\* the segment a field adds to a path: the part before the first comma of its yaml tag
\* when that tag is neither empty nor "-", else that of its json tag when that tag is
\* neither empty nor "-", else its identifier; the tag ",omitempty" gives the empty
\* segment
TagName(f) ==
    IF f.yaml \notin {<<"">>, <<"-">>} THEN f.yaml[1]
    ELSE IF f.json \notin {<<"">>, <<"-">>} THEN f.json[1]
    ELSE f.name

\* the scalar leaf fields of a value, down its nested structs: where each is, what it
\* holds, and whether every field on the way to it is exported
RECURSIVE ScalarLeaves(_, _, _)
ScalarLeaves(val, path, exported) ==
    IF val.kind = "struct"
    THEN UNION {ScalarLeaves(val.fields[i].val, JoinPath(path, TagName(val.fields[i])),
                             exported /\ val.fields[i].exported) : i \in DOMAIN val.fields}
    ELSE IF IsComposite(val) THEN {}
    ELSE {[path |-> path, val |-> val, exported |-> exported]}

\* a value without what its scalar leaf fields hold
RECURSIVE Skeleton(_)
Skeleton(val) ==
    IF val.kind = "struct"
    THEN [val EXCEPT !.fields = [i \in DOMAIN val.fields |->
                                    [val.fields[i] EXCEPT !.val = Skeleton(val.fields[i].val)]]]
    ELSE IF IsComposite(val) THEN val
    ELSE NilV

\* the leaves of old that new holds otherwise
ChangedLeaves(old, new) == ScalarLeaves(old, "", TRUE) \ ScalarLeaves(new, "", TRUE)
\* old and new differ in exactly one scalar leaf field
OneLeafDiffers(old, new) ==
    Skeleton(old) = Skeleton(new) /\ Cardinality(ChangedLeaves(old, new)) = 1
\* the item of that leaf: its path, what it held and what it holds
LeafItem(old, new) ==
    LET was == CHOOSE l \in ChangedLeaves(old, new) : TRUE
        is == CHOOSE l \in ScalarLeaves(new, "", TRUE) : l.path = was.path
    IN  ConfigChangedItem(was.path, was.val, is.val)
LeafExported(old, new) == \A l \in ChangedLeaves(old, new) : l.exported

ItemsAt(changes, path) == SelectSeq(changes, LAMBDA c : c.Path = path)

\* C30: for a map-typed field, a key that only new holds yields one item at path.key,
\* from nil to the value added; a key that only old holds yields one item, from the
\* value removed to nil; a key both hold with equal values yields no item
C30_MapKeysAddedRemovedKept ==
    Diffed =>
    \A i \in DOMAIN loc[Caller].before.fields :
        LET field == loc[Caller].before.fields[i]
            old == field.val
            new == loc[Caller].after.fields[i].val
        IN  (field.exported /\ old.kind = "map" /\ new.kind = "map") =>
            \A key \in DOMAIN old.m \cup DOMAIN new.m :
                LET path == TagName(field) \o "." \o key
                    items == ItemsAt(loc[Caller].changes, path)
                IN  /\ key \notin DOMAIN old.m
                        => items = <<ConfigChangedItem(path, NilV, new.m[key])>>
                    /\ key \notin DOMAIN new.m
                        => items = <<ConfigChangedItem(path, old.m[key], NilV)>>
                    /\ (key \in DOMAIN old.m /\ key \in DOMAIN new.m /\ old.m[key] = new.m[key])
                        => items = <<>>

\* labels lost k1, gained k2 at 0, nothing else differs, and the batch holds the item
\* of each
C30_Witness ==
    /\ Diffed
    /\ loc[Caller].before.fields[3].val = MapV("map[string]int", [k \in {"k1"} |-> IntV(1)])
    /\ loc[Caller].after.fields[3].val = MapV("map[string]int", [k \in {"k2"} |-> IntV(0)])
    /\ Len(loc[Caller].changes) = 2
    /\ ItemsAt(loc[Caller].changes, "labels.k1")
          = <<ConfigChangedItem("labels.k1", IntV(1), NilV)>>
    /\ ItemsAt(loc[Caller].changes, "labels.k2")
          = <<ConfigChangedItem("labels.k2", NilV, IntV(0))>>

(***************************************************************************)
(* findConfigChanges on two values of a type that holds a float and a      *)
(* func beside a nested struct, a map and a slice:                         *)
(*   type Window struct { Low float64 `yaml:"low"` }                       *)
(*   type Gauge struct {                                                   *)
(*       Rate   float64        `yaml:"rate"`                               *)
(*       Hook   func()         `yaml:"-"`                                  *)
(*       Window Window         `yaml:"window"`                             *)
(*       Labels map[string]int `yaml:"labels"`                             *)
(*       Tags   []int          `json:"tags"`                               *)
(*   }                                                                     *)
(***************************************************************************)
Floats == {FloatV(0), FloatV(1), NaN}
Hooks == {NilFuncV("func()"), FuncV("func()", "f")}
Window(low) == StructV("Window", << Field("Low", <<"low">>, NoTag, TRUE, low) >>)
Windows == {Window(FloatV(0)), Window(NaN)}
GaugeLabels ==
    UNION {{MapV("map[string]int", [k \in K |-> IntV(f[k])]) : f \in [K -> Vals]} :
             K \in {{}, {"k1"}}}
Gauge(r, h, w, m, t) ==
    StructV("Gauge", << Field("Rate", <<"rate">>, NoTag, TRUE, r),
                        Field("Hook", <<"-">>, NoTag, TRUE, h),
                        Field("Window", <<"window">>, NoTag, TRUE, w),
                        Field("Labels", <<"labels">>, NoTag, TRUE, m),
                        Field("Tags", NoTag, <<"tags">>, TRUE, t) >>)
Gauges ==
    {Gauge(r, h, w, m, t) : r \in Floats, h \in Hooks, w \in Windows, m \in GaugeLabels,
                            t \in IntSlices(MaxShort)}

InitGauge == \E old \in Gauges, new \in Gauges : HoldsArguments(old, new)
SpecGauge == InitGauge /\ [][NextDiff]_vars

\* C28: findConfigChanges returns the empty batch for two deeply equal values, and for
\* one value given as both the old and the new
C28_EqualValuesEmptyBatch ==
    (Diffed /\ (\/ DeepEqual(loc[Caller].before, loc[Caller].after)
                \/ loc[Caller].before = loc[Caller].after))
    => loc[Caller].changes = <<>>

(***************************************************************************)
(* findConfigChanges called twice on one pair of values of any types, nil  *)
(* and pointers among them, and on the values of                           *)
(*   type Entry struct {                                                   *)
(*       ID   int `json:"id"`                                              *)
(*       note int                                                          *)
(*   }                                                                     *)
(*   type Catalog struct {                                                 *)
(*       Entries []Entry        `yaml:"entries"`                           *)
(*       Ports   []int          `json:"ports"`                             *)
(*       Labels  map[string]int `yaml:"labels"`                            *)
(*       Next    *Entry         `yaml:"next"`                              *)
(*   }                                                                     *)
(* A nil slice and a nil map are valid values that hold nothing, and       *)
(* reflect.DeepEqual tells them from the empty slice and the empty map.    *)
(***************************************************************************)
NilSliceV(t) == [kind |-> "slice", type |-> t, elems |-> <<>>, isNil |-> TRUE]
NilMapV(t) == [kind |-> "map", type |-> t, m |-> <<>>, isNil |-> TRUE]

Entry(id, n) ==
    StructV("Entry", << Field("ID", NoTag, <<"id">>, TRUE, IntV(id)),
                        Field("note", NoTag, NoTag, FALSE, IntV(n)) >>)
Entries == {Entry(0, 0), Entry(0, 1), Entry(1, 0)}
EntrySlices ==
    {NilSliceV("[]Entry")}
        \cup UNION {{SliceV("[]Entry", es) : es \in [1 .. n -> Entries]} : n \in 0 .. MaxShort}
EntryLabels ==
    {NilMapV("map[string]int")}
        \cup UNION {{MapV("map[string]int", [k \in K |-> IntV(f[k])]) : f \in [K -> Vals]} :
                      K \in {{}, {"k1"}, LabelKeys}}
EntryPtrs == {PtrV("*Entry", NilV), PtrV("*Entry", Entry(0, 0)), PtrV("*Entry", Entry(1, 0))}
Catalog(es, ps, ls, nx) ==
    StructV("Catalog", << Field("Entries", <<"entries">>, NoTag, TRUE, es),
                          Field("Ports", NoTag, <<"ports">>, TRUE, ps),
                          Field("Labels", <<"labels">>, NoTag, TRUE, ls),
                          Field("Next", <<"next">>, NoTag, TRUE, nx) >>)
Catalogs ==
    {Catalog(es, ps, ls, nx) :
        es \in EntrySlices, ps \in IntSlices(MaxShort), ls \in EntryLabels, nx \in EntryPtrs}
ZeroCatalog ==
    Catalog(NilSliceV("[]Entry"), SliceV("[]int", <<>>), NilMapV("map[string]int"),
            PtrV("*Entry", NilV))
\* what an interface{} argument may hold besides a Catalog: nothing, a nil pointer, a
\* pointer to a Catalog, an int, a string
Values ==
    Catalogs \cup {NilV, PtrV("*Catalog", NilV), PtrV("*Catalog", ZeroCatalog),
                   IntV(0), IntV(1), StrV("a")}

InitAny == \E old \in Values, new \in Values : HoldsArguments(old, new)

\* again := findConfigChanges(oldData, newData, ""), on the arguments of the first call
CallFindConfigChangesAgain ==
    /\ pc[Caller] = "diff_ret"
    /\ \E changes \in findConfigChanges(loc[Caller].before, loc[Caller].after, "") :
          loc' = [loc EXCEPT ![Caller].again = changes]
    /\ pc' = [pc EXCEPT ![Caller] = "diff_again"]
    /\ UNCHANGED loggerVars
    /\ UNCHANGED <<engineVars, worldVars, panicked, ops, closeReturned>>

NextAny == CallFindConfigChanges \/ CallFindConfigChangesAgain
SpecAny == InitAny /\ [][NextAny]_vars

\* a call of findConfigChanges has returned, and perhaps a second one
Compared == pc[Caller] \in {"diff_ret", "diff_again"} /\ loc[Caller].op = "findConfigChanges"
\* both arguments are structs of one type, or pointers to such
BothStructs ==
    /\ Elem(loc[Caller].before).kind = "struct"
    /\ Elem(loc[Caller].after).kind = "struct"
    /\ Elem(loc[Caller].before).type = Elem(loc[Caller].after).type

\* the path of a field or key under a path, and that of an element
Dot(path, name) == IF path = "" THEN name ELSE path \o "." \o name
At(path, i) == path \o "[" \o ToString(i) \o "]"

\* the paths of the positions inside a value that is at a path
RECURSIVE Below(_, _)
Below(val, path) ==
    IF val.kind = "struct"
    THEN UNION {{Dot(path, TagName(val.fields[i]))}
                    \cup Below(val.fields[i].val, Dot(path, TagName(val.fields[i]))) :
                i \in DOMAIN val.fields}
    ELSE IF val.kind = "map"
    THEN UNION {{Dot(path, k)} \cup Below(val.m[k], Dot(path, k)) : k \in DOMAIN val.m}
    ELSE IF val.kind \in {"slice", "array"}
    THEN UNION {{At(path, i - 1)} \cup Below(val.elems[i], At(path, i - 1)) :
                i \in DOMAIN val.elems}
    ELSE {}

\* C31: for a slice-typed field whose length differs between old and new, the batch
\* holds exactly one item at the field's own path, from the whole old slice to the whole
\* new one, and no item at a path of an element of either
C31_LengthChangeOneWholeItem ==
    (Compared /\ BothStructs) =>
    \A i \in DOMAIN Elem(loc[Caller].before).fields :
        LET field == Elem(loc[Caller].before).fields[i]
            old == field.val
            new == Elem(loc[Caller].after).fields[i].val
            path == TagName(field)
        IN  (field.exported /\ old.kind = "slice" /\ Len(old.elems) # Len(new.elems)) =>
            /\ ItemsAt(loc[Caller].changes, path)
                  = <<[Path |-> path, OldValue |-> old, NewValue |-> new]>>
            /\ \A k \in DOMAIN loc[Caller].changes :
                  loc[Caller].changes[k].Path \notin Below(old, path) \cup Below(new, path)

\* entries went from the empty slice to one entry, ports lost their one port, nothing
\* else differs, and the batch is the two whole-slice items
C31_Witness ==
    /\ Compared
    /\ loc[Caller].before = Catalog(SliceV("[]Entry", <<>>), SliceV("[]int", <<IntV(1)>>),
                                    NilMapV("map[string]int"), PtrV("*Entry", NilV))
    /\ loc[Caller].after = Catalog(SliceV("[]Entry", <<Entry(1, 0)>>), SliceV("[]int", <<>>),
                                   NilMapV("map[string]int"), PtrV("*Entry", NilV))
    /\ loc[Caller].changes
          = << [Path |-> "entries", OldValue |-> SliceV("[]Entry", <<>>),
                NewValue |-> SliceV("[]Entry", <<Entry(1, 0)>>)],
               [Path |-> "ports", OldValue |-> SliceV("[]int", <<IntV(1)>>),
                NewValue |-> SliceV("[]int", <<>>)] >>

\* a value that is nil in Go: no value at all, a nil pointer, a nil slice or a nil map
IsNil(val) ==
    \/ val.kind = "invalid"
    \/ val.kind = "ptr" /\ val.elem.kind = "invalid"
    \/ "isNil" \in DOMAIN val
\* exactly one of old and new is nil, or neither is and their types differ (a pointer
\* counts as the type it points to)
Disparity(old, new) ==
    \/ IsNil(old) # IsNil(new)
    \/ ~IsNil(old) /\ ~IsNil(new) /\ Elem(old).type # Elem(new).type
\* an item is the whole-value item of a position: nil for a nil side, the value otherwise
WholeValueItem(c, path, old, new) ==
    /\ c.Path = path
    /\ IF IsNil(old) THEN IsNil(c.OldValue) ELSE c.OldValue = old
    /\ IF IsNil(new) THEN IsNil(c.NewValue) ELSE c.NewValue = new

\* C32: where old and new have different types, or exactly one of them is nil, at the
\* top or at a field, the batch holds exactly one item for that position, at its path,
\* with nil for the nil side and the whole value otherwise, and no item below it
C32_DisparityOneWholeItem ==
    Compared =>
    /\ Disparity(loc[Caller].before, loc[Caller].after) =>
          /\ Len(loc[Caller].changes) = 1
          /\ WholeValueItem(loc[Caller].changes[1], "", loc[Caller].before, loc[Caller].after)
    /\ (BothStructs /\ ~Disparity(loc[Caller].before, loc[Caller].after)) =>
          \A i \in DOMAIN Elem(loc[Caller].before).fields :
              LET field == Elem(loc[Caller].before).fields[i]
                  old == field.val
                  new == Elem(loc[Caller].after).fields[i].val
                  path == TagName(field)
                  items == ItemsAt(loc[Caller].changes, path)
              IN  (field.exported /\ Disparity(old, new)) =>
                  /\ Len(items) = 1
                  /\ WholeValueItem(items[1], path, old, new)
                  /\ \A k \in DOMAIN loc[Caller].changes :
                        loc[Caller].changes[k].Path
                            \notin Below(old, path) \cup Below(new, path)

\* C33: a second call of findConfigChanges on the same pair of values returns the same
\* sequence of items as the first
C33_SecondCallSameBatch ==
    (pc[Caller] = "diff_again" /\ loc[Caller].op = "findConfigChanges")
    => loc[Caller].again = loc[Caller].changes

(***************************************************************************)
(* findConfigChanges on two values whose slices hold up to MaxLen elements *)
(* and whose arrays hold two:                                              *)
(*   type Shelf struct {                                                   *)
(*       Entries []Entry  `yaml:"entries"`                                 *)
(*       Ports   []int    `json:"ports"`                                   *)
(*       Slots   [2]Entry `yaml:"slots"`                                   *)
(*   }                                                                     *)
(***************************************************************************)
ShelfEntries ==
    {NilSliceV("[]Entry")}
        \cup UNION {{SliceV("[]Entry", es) : es \in [1 .. n -> {Entry(0, 0), Entry(1, 0)}]} :
                      n \in 0 .. MaxLen}
ShelfSlots == {ArrayV("[2]Entry", <<a, b>>) : a \in Entries, b \in Entries}
Shelf(es, ps, sl) ==
    StructV("Shelf", << Field("Entries", <<"entries">>, NoTag, TRUE, es),
                        Field("Ports", NoTag, <<"ports">>, TRUE, ps),
                        Field("Slots", <<"slots">>, NoTag, TRUE, sl) >>)
Shelves ==
    {Shelf(es, ps, sl) : es \in ShelfEntries, ps \in IntSlices(MaxLen), sl \in ShelfSlots}

InitShelf == \E old \in Shelves, new \in Shelves : HoldsArguments(old, new)
SpecShelf == InitShelf /\ [][NextDiff]_vars

\* C35: for a slice- or array-typed field whose two collections have one length and are
\* not deeply equal, the batch holds, for each index, the item of the element at path[i]
\* when the element is a scalar that differs, and the items of its exported fields that
\* differ when it is a struct; when none of that yields an item it holds exactly one
\* item at the field's path, from the whole old collection to the whole new one
C35_EqualLengthElementwise ==
    (Compared /\ BothStructs) =>
    \A i \in DOMAIN Elem(loc[Caller].before).fields :
        LET field == Elem(loc[Caller].before).fields[i]
            old == field.val
            new == Elem(loc[Caller].after).fields[i].val
            path == TagName(field)
            changes == loc[Caller].changes
            elementLevel == {k \in DOMAIN changes :
                                changes[k].Path \in Below(old, path) \cup Below(new, path)}
        IN  (field.exported /\ old.kind \in {"slice", "array"}
                /\ Len(old.elems) = Len(new.elems) /\ old # new) =>
            /\ \A j \in DOMAIN old.elems :
                  IF old.elems[j].kind = "struct"
                  THEN /\ ItemsAt(changes, At(path, j - 1)) = <<>>
                       /\ \A f \in DOMAIN old.elems[j].fields :
                             LET was == old.elems[j].fields[f]
                                 is == new.elems[j].fields[f]
                                 leaf == Dot(At(path, j - 1), TagName(was))
                             IN  ItemsAt(changes, leaf)
                                    = IF was.exported /\ was.val # is.val
                                      THEN <<[Path |-> leaf, OldValue |-> was.val,
                                              NewValue |-> is.val]>>
                                      ELSE <<>>
                  ELSE ItemsAt(changes, At(path, j - 1))
                          = IF old.elems[j] # new.elems[j]
                            THEN <<[Path |-> At(path, j - 1), OldValue |-> old.elems[j],
                                    NewValue |-> new.elems[j]]>>
                            ELSE <<>>
            /\ ItemsAt(changes, path)
                  = IF elementLevel = {}
                    THEN <<[Path |-> path, OldValue |-> old, NewValue |-> new]>>
                    ELSE <<>>

\* the second of two entries went from id 0 to id 1, the two ports changed places, the
\* second slot differs in its unexported field only, and the batch is the item of
\* entries[1].id, the items of ports[0] and ports[1], and the whole-array item of slots
C35_Witness ==
    /\ Compared
    /\ loc[Caller].before
          = Shelf(SliceV("[]Entry", <<Entry(0, 0), Entry(0, 0)>>),
                  SliceV("[]int", <<IntV(0), IntV(1)>>),
                  ArrayV("[2]Entry", <<Entry(0, 0), Entry(0, 0)>>))
    /\ loc[Caller].after
          = Shelf(SliceV("[]Entry", <<Entry(0, 0), Entry(1, 0)>>),
                  SliceV("[]int", <<IntV(1), IntV(0)>>),
                  ArrayV("[2]Entry", <<Entry(0, 0), Entry(0, 1)>>))
    /\ loc[Caller].changes
          = << [Path |-> "entries[1].id", OldValue |-> IntV(0), NewValue |-> IntV(1)],
               [Path |-> "ports[0]", OldValue |-> IntV(0), NewValue |-> IntV(1)],
               [Path |-> "ports[1]", OldValue |-> IntV(1), NewValue |-> IntV(0)],
               [Path |-> "slots", OldValue |-> ArrayV("[2]Entry", <<Entry(0, 0), Entry(0, 0)>>),
                NewValue |-> ArrayV("[2]Entry", <<Entry(0, 0), Entry(0, 1)>>)] >>

\* the leaves of a value that are reached through exported fields, map keys, slice
\* indices and pointers: where each is, what it holds, and the paths of the positions
\* from the top down to it
RECURSIVE Leaves(_, _, _)
Leaves(val, path, on) ==
    IF val.kind = "invalid" THEN {}
    ELSE IF val.kind = "ptr" THEN Leaves(val.elem, path, on)
    ELSE IF val.kind = "struct"
    THEN UNION {IF val.fields[i].exported
                THEN Leaves(val.fields[i].val, Dot(path, TagName(val.fields[i])),
                            on \cup {Dot(path, TagName(val.fields[i]))})
                ELSE {} : i \in DOMAIN val.fields}
    ELSE IF val.kind = "map"
    THEN UNION {Leaves(val.m[k], Dot(path, k), on \cup {Dot(path, k)}) : k \in DOMAIN val.m}
    ELSE IF val.kind \in {"slice", "array"}
    THEN UNION {Leaves(val.elems[i], At(path, i - 1), on \cup {At(path, i - 1)}) :
                i \in DOMAIN val.elems}
    ELSE {[path |-> path, val |-> val, on |-> on]}

\* the leaves that one of old and new holds and the other does not hold alike
DifferingLeaves(old, new) ==
    (Leaves(old, "", {""}) \ Leaves(new, "", {""}))
        \cup (Leaves(new, "", {""}) \ Leaves(old, "", {""}))

\* C36: for every exported leaf at which old and new differ, the batch holds an item at
\* the path of the leaf or at the path of a position above it
C36_EveryDifferenceReported ==
    Compared =>
    \A l \in DifferingLeaves(loc[Caller].before, loc[Caller].after) :
        \E k \in DOMAIN loc[Caller].changes : loc[Caller].changes[k].Path \in l.on

\* an entry's id, a port, a label and the entry pointed to all differ, and the batch
\* holds an item for each
C36_Witness ==
    /\ Compared
    /\ loc[Caller].before
          = Catalog(SliceV("[]Entry", <<Entry(0, 0)>>), SliceV("[]int", <<IntV(0)>>),
                    MapV("map[string]int", [k \in {"k1"} |-> IntV(0)]),
                    PtrV("*Entry", Entry(0, 0)))
    /\ loc[Caller].after
          = Catalog(SliceV("[]Entry", <<Entry(1, 0)>>), SliceV("[]int", <<IntV(1)>>),
                    MapV("map[string]int", [k \in {"k1"} |-> IntV(1)]),
                    PtrV("*Entry", Entry(1, 0)))
    /\ {loc[Caller].changes[k].Path : k \in DOMAIN loc[Caller].changes}
          = {"entries[0].id", "ports[0]", "labels.k1", "next"}

(***************************************************************************)
(* Observers that call the engine from inside their callback. The call is  *)
(* made by the task that runs the loop of triggerCallbacks, which holds    *)
(* c.callbackMu for reading until the loop ends.                           *)
(***************************************************************************)
\* callback(e, changedItems) whose body calls c.OnChange: c.callbackMu.Lock() is requested
ObserverOnChange(t) ==
    /\ Alive
    /\ pc[t] = "cb_invoke"
    /\ loc[t].i <= Len(loc[t].cbs)
    /\ callbackMu' = [callbackMu EXCEPT !.waiting = @ \cup {t}]
    /\ loc' = [loc EXCEPT ![t].calls = Append(@, loc[t].cbs[loc[t].i])]
    /\ pc' = [pc EXCEPT ![t] = "cb_onchange_lock"]
    /\ UNCHANGED loggerVars
    /\ UNCHANGED <<data, oldData, v, optionVars, changeCallbacks,
                   lastModTime, closed, etcdClients, envOnly, worldVars, panicked, ops,
                   closeReturned>>

\* callback(e, changedItems) whose body calls c.Close: c.closed = true under closedMu
ObserverClose(t) ==
    /\ Alive
    /\ pc[t] = "cb_invoke"
    /\ loc[t].i <= Len(loc[t].cbs)
    /\ closed' = TRUE
    /\ loc' = [loc EXCEPT ![t].calls = Append(@, loc[t].cbs[loc[t].i])]
    /\ pc' = [pc EXCEPT ![t] = "cb_close_lock"]
    /\ UNCHANGED loggerVars
    /\ UNCHANGED <<data, oldData, v, optionVars, changeCallbacks, callbackMu,
                   lastModTime, etcdClients, envOnly, worldVars, panicked, ops,
                   closeReturned>>

NextReentrant ==
    \/ NextEnv
    \/ \E t \in Callers : ObserverOnChange(t)
    \/ \E t \in Callers : ObserverClose(t)
    \/ \E t \in Callers : OnChangeAppendBy(t)
    \/ \E t \in Callers : CloseLockBy(t)
    \/ \E t \in Callers : CloseClearCallbacksBy(t)
    \/ \E t \in Callers : CloseReleaseBy(t)
    \/ \E t \in Callers : CloseClientsBy(t)
    \/ \E t \in Callers : CloseViperBy(t)
    \/ \E t \in Callers : CloseDataBy(t)
    \/ \E t \in Callers : CloseOldDataBy(t)
SpecReentrant == InitEnvMode /\ [][NextReentrant]_vars

\* the step by which a call of OnChange or Close gets the write lock it waits for
WriteLockGranted(t) == OnChangeAppendBy(t) \/ CloseClearCallbacksBy(t)

\* C37: an observer's call of OnChange or Close that waits for c.callbackMu can get it,
\* or waits for another task to release it: it never waits for the dispatch it runs in
C37_ReentrantCallReturns ==
    Alive =>
    \A t \in Callers :
        pc[t] \in {"cb_onchange_lock", "cb_close_clear"} =>
            \/ ENABLED WriteLockGranted(t)
            \/ callbackMu.readers \ {t} # {}

(***************************************************************************)
(* Update of an environment-only engine by one caller, with arguments that *)
(* encode and one that does not.                                           *)
(***************************************************************************)
NextEnvUpdate ==
    \/ Tick
    \/ CallerCommon
    \/ Update(UnencodableArg)
    \/ UpdateEnv
    \/ UpdateEnvOldData
    \/ UpdateEnvData
    \/ UpdateEnvBind
    \/ UpdateEnvSet
    \/ TrigClosed(Caller)
    \/ TrigDebounce(Caller)
    \/ TrigStamp(Caller)
    \/ TrigDiff(Caller)
    \/ TrigDiffData(Caller)
    \/ CallbackRLock(Caller)
    \/ CallbackInvoke(Caller)
    \/ CallbackReturn(Caller)
SpecEnvUpdate == InitEnvMode /\ [][NextEnvUpdate]_vars

\* C38: when Update is about to return an error, the current snapshot and the previous
\* snapshot are those the engine held when Update was called
C38_FailedUpdateChangesNothing ==
    (pc[Caller] = "update_ret" /\ loc[Caller].op = "Update" /\ loc[Caller].err # "")
    => /\ data = loc[Caller].pre.data
       /\ oldData = loc[Caller].pre.oldData

\* the one watched key of an open engine has been put to, no event of it is left to
\* deliver, and its watch task is in no callback: it waits for the next event, or the
\* process has ended
KvSettled ==
    /\ Len(kv) = 1 /\ Len(etcdClients) = 1
    /\ ~closed /\ ~chanClosed[1]
    /\ writes > 0
    /\ watchChan[1] = <<>>
    /\ pc[Caller] = "ready"
    /\ (pc[EtcdWatcher(1)] = "idle" \/ ~Alive)

\* C39: once the puts to the watched key have been delivered and served, and the last
\* value put can be decoded, the engine runs and its snapshot is that value
C39_KvConverges ==
    (KvSettled /\ Decodable(kv[1])) => (Alive /\ data = Unmarshal(kv[1], ZeroT))

(***************************************************************************)
(* Package logger: SetDefault, DefaultLogger and the package-level         *)
(* functions Debug, Info, Warn, Error, With and SetLevel, each called      *)
(* MaxOps times by the goroutines of the test. An interface value is       *)
(* stored and loaded one word at a time.                                   *)
(***************************************************************************)
LogFunctions == {"Debug", "Info", "Warn", "Error", "With", "SetLevel"}

\* no engine is built
NoEngine ==
    /\ data = ZeroT
    /\ oldData = ZeroT
    /\ v = NilViper
    /\ configFiles = <<>>
    /\ etcdConfigs = <<>>
    /\ enableEnv = FALSE
    /\ env = NoEnv
    /\ configType = YAML
    /\ changeCallbacks = <<>>
    /\ callbackMu = RWUnlocked
    /\ lastModTime = ZeroTime
    /\ closed = FALSE
    /\ etcdClients = <<>>
    /\ envOnly = FALSE
    /\ now = 0
    /\ fs = <<>>
    /\ fsEvents = 0
    /\ kv = <<>>
    /\ watchChan = <<>>
    /\ chanClosed = <<>>
    /\ clientClosed = <<>>
    /\ writes = 0
    /\ pc = [t \in Tasks |-> "none"]
    /\ loc = [t \in Tasks |-> InitLoc]
    /\ panicked = NoPanic
    /\ ops = 0
    /\ closeReturned = FALSE

\* after init(): std holds the first logger and the goroutines of the test start
InitLogger ==
    /\ NoEngine
    /\ std = ZapLogger(0)
    /\ mu = MutexFree
    /\ at = [g \in Goroutines |-> "ready"]
    /\ got = [g \in Goroutines |-> InitGot]

\* logger, err := NewLogger(cfg): a logger of its own for each call
NewLogger(g) == ZapLogger((g[2] - 1) * MaxOps + got[g].n + 1)

\* SetDefault(logger): mu.Lock()
SetDefaultLock(g) ==
    /\ g \in Setters
    /\ at[g] = "ready"
    /\ got[g].n < MaxOps
    /\ mu = MutexFree
    /\ mu' = [mu EXCEPT !.writer = g]
    /\ got' = [got EXCEPT ![g].op = "SetDefault", ![g].arg = NewLogger(g)]
    /\ at' = [at EXCEPT ![g] = "store_type"]
    /\ UNCHANGED <<engineVars, worldVars, taskVars, std>>

\* std = logger: the type word
SetDefaultStoreType(g) ==
    /\ at[g] = "store_type"
    /\ std' = [std EXCEPT !.type = got[g].arg.type]
    /\ at' = [at EXCEPT ![g] = "store_data"]
    /\ UNCHANGED <<engineVars, worldVars, taskVars, mu, got>>

\* std = logger: the data word
SetDefaultStoreData(g) ==
    /\ at[g] = "store_data"
    /\ std' = [std EXCEPT !.ptr = got[g].arg.ptr]
    /\ at' = [at EXCEPT ![g] = "unlock"]
    /\ UNCHANGED <<engineVars, worldVars, taskVars, mu, got>>

\* the deferred mu.Unlock()
SetDefaultUnlock(g) ==
    /\ at[g] = "unlock"
    /\ mu' = [mu EXCEPT !.writer = NoTask]
    /\ got' = [got EXCEPT ![g].n = @ + 1]
    /\ at' = [at EXCEPT ![g] = "ready"]
    /\ UNCHANGED <<engineVars, worldVars, taskVars, std>>

\* DefaultLogger(): mu.RLock()
DefaultLoggerRLock(g) ==
    /\ g \in Getters
    /\ at[g] = "ready"
    /\ got[g].n < MaxOps
    /\ mu.writer = NoTask
    /\ mu' = [mu EXCEPT !.readers = @ \cup {g}]
    /\ got' = [got EXCEPT ![g].op = "DefaultLogger"]
    /\ at' = [at EXCEPT ![g] = "load_type"]
    /\ UNCHANGED <<engineVars, worldVars, taskVars, std>>

\* Debug, Info, Warn, Error, With, SetLevel: std.Method(...), with no lock taken
LogCall(g, fn) ==
    /\ g \in Users
    /\ at[g] = "ready"
    /\ got[g].n < MaxOps
    /\ got' = [got EXCEPT ![g].op = fn]
    /\ at' = [at EXCEPT ![g] = "load_type"]
    /\ UNCHANGED <<engineVars, worldVars, taskVars, std, mu>>

\* the load of std: the type word
LoadType(g) ==
    /\ at[g] = "load_type"
    /\ got' = [got EXCEPT ![g].logger.type = std.type]
    /\ at' = [at EXCEPT ![g] = "load_data"]
    /\ UNCHANGED <<engineVars, worldVars, taskVars, std, mu>>

\* the load of std: the data word
LoadData(g) ==
    /\ at[g] = "load_data"
    /\ got' = [got EXCEPT ![g].logger.ptr = std.ptr]
    /\ at' = [at EXCEPT ![g] = IF got[g].op = "DefaultLogger" THEN "runlock" ELSE "invoke"]
    /\ UNCHANGED <<engineVars, worldVars, taskVars, std, mu>>

\* return std, and the deferred mu.RUnlock()
DefaultLoggerRUnlock(g) ==
    /\ at[g] = "runlock"
    /\ mu' = [mu EXCEPT !.readers = @ \ {g}]
    /\ got' = [got EXCEPT ![g].n = @ + 1]
    /\ at' = [at EXCEPT ![g] = "ready"]
    /\ UNCHANGED <<engineVars, worldVars, taskVars, std>>

\* the method of the logger that was loaded runs and returns
LogReturn(g) ==
    /\ at[g] = "invoke"
    /\ got' = [got EXCEPT ![g].n = @ + 1]
    /\ at' = [at EXCEPT ![g] = "ready"]
    /\ UNCHANGED <<engineVars, worldVars, taskVars, std, mu>>

NextLogger ==
    \/ \E g \in Goroutines : SetDefaultLock(g)
    \/ \E g \in Goroutines : SetDefaultStoreType(g)
    \/ \E g \in Goroutines : SetDefaultStoreData(g)
    \/ \E g \in Goroutines : SetDefaultUnlock(g)
    \/ \E g \in Goroutines : DefaultLoggerRLock(g)
    \/ \E g \in Goroutines, fn \in LogFunctions : LogCall(g, fn)
    \/ \E g \in Goroutines : LoadType(g)
    \/ \E g \in Goroutines : LoadData(g)
    \/ \E g \in Goroutines : DefaultLoggerRUnlock(g)
    \/ \E g \in Goroutines : LogReturn(g)
SpecLogger == InitLogger /\ [][NextLogger]_vars

\* a goroutine is about to store a word of std; a goroutine is about to load one
Storing(g) == at[g] \in {"store_type", "store_data"}
Loading(g) == at[g] \in {"load_type", "load_data"}
\* the loggers that init() and the calls of NewLogger made
LoggersMade == {ZapLogger(p) : p \in 0 .. 2 * MaxOps}

\* C34: no goroutine loads std while another stores it, and the logger a goroutine has
\* loaded is one that was made: non-nil, with the type and the pointer of one logger
C34_DefaultLoggerSynchronized ==
    /\ \A r \in Goroutines, w \in Goroutines : ~(Loading(r) /\ Storing(w))
    /\ \A g \in Goroutines : at[g] \in {"runlock", "invoke"} => got[g].logger \in LoggersMade

====
